---- MODULE Spec2Model ----
(***************************************************************************)
(* Model of the two autonomous control loops of the rover:                 *)
(*   - line_follow.py        : PD line follower (main)                     *)
(*   - obstacle_navigator.py : pan/tilt ultrasonic navigator               *)
(* and of the two supervisors that start and stop them as processes:       *)
(*   - car_tui.py            : terminal supervisor (procs, kill_proc)      *)
(*   - command_listener.py   : MQTT command listener (pid files)           *)
(*                                                                         *)
(* Numeric conventions.  Python floats are replaced by exact integers:     *)
(*   - the line error err takes the values -1, -1/2, 0, 1/2, 1 only; err,  *)
(*     last_err and deriv are held in HALVES (err = -2..2);                *)
(*   - pivot_err is held in TENTHS (0.6 -> 6);                             *)
(*   - coast_scale is a dyadic fraction <<num, den>> (exact in binary      *)
(*     floating point), tp_gamma a positive integer exponent;              *)
(*   - distances are held in HALF centimetres, pivot durations in units of *)
(*     1/380 ms (both exact for the averages and the ramp the code forms); *)
(*   - int() is truncation toward zero.                                    *)
(* All gains and powers are integers, so every product the code forms is a *)
(* multiple of 1/2 or of 1/2^tp_gamma and is exact in double precision.    *)
(***************************************************************************)
EXTENDS Integers, Sequences, FiniteSets, TLC

VARIABLES
    \* ---- line_follow.py main(): configuration and locals
    args,        \* parsed command line of line_follow.py
    lfPc,        \* position of main(): "idle" | "top" | "sensed" | "finally" | "done"
    L, M, R,     \* normalised reading of this tick
    last_err,    \* in halves
    loss_count,
    coasting,
    coast_loops,
    last_left, last_right,
    l_cmd, r_cmd,\* pivot commands before drive-sign scaling
    err,         \* err of the last steering tick, in halves
    lfOut,       \* branch that issued the last command of the loop
    lfExit,      \* why the loop was left: "none" | "interrupt" | "read_error" | "error"
    base,        \* base of the last steering tick
    steer,       \* steer of the last steering tick, in halves
    prev_center, \* the previous tick read the centered pattern (0, 1, 0)
    \* ---- obstacle_navigator.py: configuration, objects and locals of tick()
    nargs,       \* parsed command line / constructor arguments
    navPc,       \* position of main() and of tick()
    ps_pos, ps_dir,          \* PanSweeper
    to_pos, to_dir,          \* TiltOscillator
    ticks,
    last_ahead,              \* half centimetres
    us_reads,                \* raw get_distance() results of this tick's ahead sample
    pan_deg, tilt_deg,       \* last angle passed to PanServo.angle / TiltServo.angle
    pan_out, tilt_out,       \* last angle PanServo / TiltServo handed to the servo driver
    probe,                   \* index of the peek in progress: 1 left, 2 right, 3 up, 4 down
    left_mid, right_mid, up_ahead, down_ahead,   \* half centimetres
    dur,                     \* duration of the pivot in progress, 1/380 ms
    clear,                   \* <<L, R>> of lines 229-230 during the pivot, half cm
    recoveries,              \* number of recovery sequences started
    recLog,                  \* drivetrain commands issued by the current recovery
    navExit,                 \* position at which the loop was interrupted
    \* ---- the drivetrain (Ordinary_Car): last command issued
    motor,
    \* ---- sensor reads and actuator commands of the tick in progress, in order
    tickLog,
    \* ---- car_tui.py and command_listener.py: controller processes
    running,     \* live controller processes, each <<kind, pid>>
    next_pid,    \* pid the next spawned process gets
    procs,       \* car_tui.py procs: key -> pid of the Popen handle, 0 for None
    tuiPc,       \* position of the key handler of car_tui.py draw()
    pidfile      \* command_listener.py /tmp/*.pid: key -> pid, 0 if absent

lfVars == <<args, lfPc, L, M, R, last_err, loss_count, coasting, coast_loops,
            last_left, last_right, l_cmd, r_cmd, err, lfOut, lfExit,
            base, steer, prev_center>>
supVars == <<running, next_pid, procs, tuiPc, pidfile>>
headVars == <<ps_pos, ps_dir, to_pos, to_dir, pan_deg, tilt_deg,
              pan_out, tilt_out>>
probeVars == <<probe, left_mid, right_mid, up_ahead, down_ahead, dur, clear>>
navVars == <<nargs, navPc, headVars, ticks, last_ahead, us_reads, probeVars,
             recoveries, recLog, navExit>>
vars == <<lfVars, navVars, motor, tickLog, supVars>>

-----------------------------------------------------------------------------
\* Bounds of the model
MaxLoss == 4          \* longest run of all-dark ticks explored
MaxTicks == 4         \* navigator ticks explored
MaxPid == 9           \* controller processes a supervisor spawns

\* Program constants
CmdMax == 2000        \* clamp limit of every line-follower wheel power

-----------------------------------------------------------------------------
\* Shared helpers

Abs(x) == IF x < 0 THEN -x ELSE x

\* int(a / b) for b > 0: Python's int() truncates toward zero
TruncDiv(a, b) == IF a >= 0 THEN a \div b ELSE -((-a) \div b)

RECURSIVE Pow(_, _)
Pow(b, n) == IF n = 0 THEN 1 ELSE b * Pow(b, n - 1)

clamp(x, lo, hi) == IF x < lo THEN lo ELSE IF x > hi THEN hi ELSE x

Zero == <<0, 0, 0, 0>>

\* car.set_motor_model(left, left, right, right)
Drive(left, right) == <<left, left, right, right>>

-----------------------------------------------------------------------------
\* line_follow.py

\* Values the argument parser can deliver.  --pivot, --invert-steer,
\* --invert-drive and --bias-ambig are store_true flags with default=True:
\* True is the only value they can take.  coast_scale and loss_timeout are read
\* only when stop_on_loss is off, so they are varied only then.
LfArgSpace ==
    [ active_low    : BOOLEAN,
      invert_steer  : {TRUE},
      invert_drive  : {TRUE},
      kp            : {1000},
      kd            : {380, 2000},
      base_straight : {420},
      base_min      : {180},
      tp_gamma      : {1, 2},
      pivot         : {TRUE},
      pivot_err     : {6, 10},            \* tenths
      pivot_power   : {1200, 2500},
      loss_confirm  : {1, 2},
      stop_on_loss  : BOOLEAN,
      coast_scale   : {<<3, 4>>, <<3, 2>>},
      loss_timeout  : {0, 2},
      bias_ambig    : {TRUE} ]

LfArgs ==
    { a \in LfArgSpace :
        a.stop_on_loss => (a.coast_scale = <<3, 4>> /\ a.loss_timeout = 0) }

steer_sign == IF args.invert_steer THEN -1 ELSE 1
drive_sign == IF args.invert_drive THEN -1 ELSE 1

\* read_triplet: raw channel values b (1 or 0 each), normalised so that
\* 1 = sees the line
read_triplet(raw, active_low) ==
    IF active_low THEN <<1 - raw[1], 1 - raw[2], 1 - raw[3]>> ELSE raw

RawReadings == {0, 1} \X {0, 1} \X {0, 1}

on == L + M + R

\* Mutant: only the all-active pattern counts as ambiguous
ambiguous_AllOnly == L = 1 /\ M = 1 /\ R = 1

ambiguous == (L = 1 /\ M = 1 /\ R = 1) \/ (L = 1 /\ M = 0 /\ R = 1)

\* Mutant: a dark tick short of the confirmation steers with error 0
ErrOfReading_DarkZero ==
    IF on > 0
    THEN IF args.bias_ambig /\ ambiguous THEN last_err
         ELSE (2 * (R - L)) \div on
    ELSE 0

\* Mutant: the error is not divided by the number of active sensors
ErrOfReading_NoNorm ==
    IF on > 0
    THEN IF args.bias_ambig /\ ambiguous THEN last_err
         ELSE 2 * (R - L)
    ELSE last_err

\* err of this tick, in halves: (-1.0*L + 0.0*M + 1.0*R) / float(on)
ErrOfReading ==
    IF on > 0
    THEN IF args.bias_ambig /\ ambiguous THEN last_err
         ELSE (2 * (R - L)) \div on
    ELSE last_err

\* Mutant: proportional term only
Steer2_NoDeriv(e, p) == steer_sign * (args.kp * e)

\* 2 * steer, for err e and previous error p (both in halves)
Steer2(e, p) == steer_sign * (args.kp * e + args.kd * (e - p))

\* Mutant: no speed shaping, the slow base at every error
Base_Flat(e) == args.base_min

\* base = int(base_straight - (base_straight - base_min) * (abs(err) ** tp_gamma))
Base(e) ==
    LET mag == Abs(e)
        den == Pow(2, args.tp_gamma)
        num == Pow(mag, args.tp_gamma)   \* (mag/2)^g = mag^g / 2^g
    IN  TruncDiv(args.base_straight * den
                   - (args.base_straight - args.base_min) * num, den)

\* Mutant: the comparison is strict
PivotEngaged_Strict(e) == args.pivot /\ Abs(e) * 5 > args.pivot_err

\* abs(err) >= pivot_err, err in halves against pivot_err in tenths
PivotEngaged(e) == args.pivot /\ Abs(e) * 5 >= args.pivot_err

\* Mutant: the two pivot directions are exchanged
PivotCmd_Swapped(e) ==
    IF e > 0 THEN <<-args.pivot_power, args.pivot_power>>
             ELSE <<args.pivot_power, -args.pivot_power>>

\* l_cmd, r_cmd of the pivot branch
PivotCmd(e) ==
    IF e > 0 THEN <<args.pivot_power, -args.pivot_power>>
             ELSE <<-args.pivot_power, args.pivot_power>>

\* int(clamp(x, -2000, 2000)) for x given in halves
IntClamp2(x2) == TruncDiv(clamp(x2, -2 * CmdMax, 2 * CmdMax), 2)

\* Mutant: the pivot command is not scaled by the drive sign
SteerCmd_PivotUnsigned(e, p) ==
    IF PivotEngaged(e)
    THEN <<IntClamp2(2 * PivotCmd(e)[1]), IntClamp2(2 * PivotCmd(e)[2])>>
    ELSE <<IntClamp2((2 * Base(e) - Steer2(e, p)) * drive_sign),
           IntClamp2((2 * Base(e) + Steer2(e, p)) * drive_sign)>>

\* left, right of the steering branch for err e, previous error p
SteerCmd(e, p) ==
    IF PivotEngaged(e)
    THEN <<IntClamp2(2 * PivotCmd(e)[1] * drive_sign),
           IntClamp2(2 * PivotCmd(e)[2] * drive_sign)>>
    ELSE <<IntClamp2((2 * Base(e) - Steer2(e, p)) * drive_sign),
           IntClamp2((2 * Base(e) + Steer2(e, p)) * drive_sign)>>

\* Mutant: the scale is compounded over the coast ticks
CoastCmd_Compound(last) ==
    LET n == Pow(args.coast_scale[1], coast_loops + 1)
        d == Pow(args.coast_scale[2], coast_loops + 1)
    IN  TruncDiv(clamp(last * n, -CmdMax * d, CmdMax * d), d)

\* int(clamp(last * coast_scale, -2000, 2000))
CoastCmd(last) ==
    LET n == args.coast_scale[1]
        d == args.coast_scale[2]
    IN  TruncDiv(clamp(last * n, -CmdMax * d, CmdMax * d), d)

\* Mutant: the loss is confirmed one tick early
LossConfirmed_Early == on = 0 /\ loss_count + 1 >= args.loss_confirm


LossConfirmed == on = 0 /\ loss_count >= args.loss_confirm

\* Configurations for the two sign switches.  Lines 82-83 turn each of
\* args.invert_steer and args.invert_drive into a sign of -1 or +1 and the loop
\* uses the signs for both values.  (The parser of lines 47-48 declares both
\* options store_true with default=True, so from the command line only True
\* arrives; the runs with a switch off are those of the loop entered with it
\* False.)  The other options are held at one value each where they do not
\* bear on the signs.
SignArgs ==
    { [a EXCEPT !.invert_steer = s, !.invert_drive = d] :
        a \in { b \in LfArgs : /\ ~b.active_low /\ b.kd = 380 /\ b.tp_gamma = 1
                                /\ b.pivot_power = 1200 /\ b.loss_confirm = 1
                                /\ b.loss_timeout = 0 },
        s \in BOOLEAN, d \in BOOLEAN }

\* Lines 82-93 for a configuration of SignArgs
LfInitSigns ==
    /\ args \in SignArgs
    /\ lfPc = "top"
    /\ L = 0 /\ M = 0 /\ R = 0
    /\ last_err = 0
    /\ loss_count = 0
    /\ coasting = FALSE
    /\ coast_loops = 0
    /\ last_left = 0 /\ last_right = 0
    /\ l_cmd = 0 /\ r_cmd = 0
    /\ err = 0
    /\ lfOut = "none"
    /\ lfExit = "none"
    /\ base = 0
    /\ steer = 0
    /\ prev_center = FALSE

\* State after construction: arguments parsed, car and ir acquired, locals set
LfInit ==
    /\ args \in LfArgs
    /\ lfPc = "top"
    /\ L = 0 /\ M = 0 /\ R = 0
    /\ last_err = 0
    /\ loss_count = 0
    /\ coasting = FALSE
    /\ coast_loops = 0
    /\ last_left = 0 /\ last_right = 0
    /\ l_cmd = 0 /\ r_cmd = 0
    /\ err = 0
    /\ lfOut = "none"
    /\ lfExit = "none"
    /\ base = 0
    /\ steer = 0
    /\ prev_center = FALSE

\* Lines 102-112: read the three sensors, count the dark streak
LfSense ==
    /\ lfPc = "top"
    /\ \E raw \in RawReadings :
         LET b == read_triplet(raw, args.active_low) IN
         /\ L' = b[1] /\ M' = b[2] /\ R' = b[3]
         /\ IF b[1] + b[2] + b[3] = 0
            THEN /\ loss_count < MaxLoss
                 /\ loss_count' = loss_count + 1
                 /\ UNCHANGED <<coasting, coast_loops>>
            ELSE /\ loss_count' = 0
                 /\ coasting' = FALSE
                 /\ coast_loops' = 0
    /\ prev_center' = (L = 0 /\ M = 1 /\ R = 0)
    /\ tickLog' = <<"line">>
    /\ lfPc' = "sensed"
    /\ UNCHANGED <<supVars, navVars, args, last_err, last_left, last_right, l_cmd, r_cmd,
                   err, lfOut, lfExit, base, steer, motor>>

\* Mutant: the confirmed loss skips steering without commanding zero
LfStopOnLoss_KeepCmd ==
    /\ lfPc = "sensed"
    /\ LossConfirmed
    /\ args.stop_on_loss
    /\ lfOut' = "stop"
    /\ tickLog' = Append(tickLog, "drive")
    /\ lfPc' = "top"
    /\ UNCHANGED <<supVars, navVars, args, L, M, R, last_err, loss_count, coasting,
                   coast_loops, last_left, last_right, l_cmd, r_cmd, err, lfExit,
                   base, steer, prev_center, motor>>

\* Lines 114-118: confirmed loss with --stop-on-loss
LfStopOnLoss ==
    /\ lfPc = "sensed"
    /\ LossConfirmed
    /\ args.stop_on_loss
    /\ motor' = Zero
    /\ lfOut' = "stop"
    /\ tickLog' = Append(tickLog, "drive")
    /\ lfPc' = "top"
    /\ UNCHANGED <<supVars, navVars, args, L, M, R, last_err, loss_count, coasting,
                   coast_loops, last_left, last_right, l_cmd, r_cmd, err, lfExit,
                   base, steer, prev_center>>

\* Mutant: the coast times out one tick early
LfCoast_OffByOne ==
    /\ lfPc = "sensed"
    /\ LossConfirmed
    /\ ~args.stop_on_loss
    /\ coasting' = TRUE
    /\ coast_loops' = coast_loops + 1
    /\ IF args.loss_timeout # 0 /\ coast_loops + 1 >= args.loss_timeout
       THEN /\ motor' = Zero
            /\ lfOut' = "timeout"
       ELSE /\ motor' = Drive(CoastCmd(last_left), CoastCmd(last_right))
            /\ lfOut' = "coast"
    /\ tickLog' = Append(tickLog, "drive")
    /\ lfPc' = "top"
    /\ UNCHANGED <<supVars, navVars, args, L, M, R, last_err, loss_count,
                   last_left, last_right, l_cmd, r_cmd, err, lfExit,
                   base, steer, prev_center>>

\* Mutant: the coast command is stored as the last command
LfCoast_Remember ==
    /\ lfPc = "sensed"
    /\ LossConfirmed
    /\ ~args.stop_on_loss
    /\ coasting' = TRUE
    /\ coast_loops' = coast_loops + 1
    /\ IF args.loss_timeout # 0 /\ coast_loops + 1 > args.loss_timeout
       THEN /\ motor' = Zero
            /\ lfOut' = "timeout"
            /\ UNCHANGED <<last_left, last_right>>
       ELSE /\ motor' = Drive(CoastCmd(last_left), CoastCmd(last_right))
            /\ lfOut' = "coast"
            /\ last_left' = CoastCmd(last_left)
            /\ last_right' = CoastCmd(last_right)
    /\ tickLog' = Append(tickLog, "drive")
    /\ lfPc' = "top"
    /\ UNCHANGED <<supVars, navVars, args, L, M, R, last_err, loss_count,
                   l_cmd, r_cmd, err, lfExit,
                   base, steer, prev_center>>

\* Lines 119-132: confirmed loss, coast (or stop once the coast timed out)
LfCoast ==
    /\ lfPc = "sensed"
    /\ LossConfirmed
    /\ ~args.stop_on_loss
    /\ coasting' = TRUE
    /\ coast_loops' = coast_loops + 1
    /\ IF args.loss_timeout # 0 /\ coast_loops + 1 > args.loss_timeout
       THEN /\ motor' = Zero
            /\ lfOut' = "timeout"
       ELSE /\ motor' = Drive(CoastCmd(last_left), CoastCmd(last_right))
            /\ lfOut' = "coast"
    /\ tickLog' = Append(tickLog, "drive")
    /\ lfPc' = "top"
    /\ UNCHANGED <<supVars, navVars, args, L, M, R, last_err, loss_count,
                   last_left, last_right, l_cmd, r_cmd, err, lfExit,
                   base, steer, prev_center>>

\* Mutant: the command is not stored as the last command
LfSteer_NoStore ==
    /\ lfPc = "sensed"
    /\ ~LossConfirmed
    /\ LET e   == ErrOfReading
           cmd == SteerCmd(e, last_err)
       IN  /\ err' = e
           /\ last_err' = e
           /\ steer' = Steer2(e, last_err)
           /\ base' = Base(e)
           /\ IF PivotEngaged(e)
              THEN /\ l_cmd' = PivotCmd(e)[1]
                   /\ r_cmd' = PivotCmd(e)[2]
                   /\ lfOut' = "pivot"
              ELSE /\ UNCHANGED <<l_cmd, r_cmd>>
                   /\ lfOut' = "diff"
           /\ motor' = Drive(cmd[1], cmd[2])
           /\ UNCHANGED <<last_left, last_right>>
    /\ tickLog' = Append(tickLog, "drive")
    /\ lfPc' = "top"
    /\ UNCHANGED <<supVars, navVars, args, L, M, R, loss_count, coasting, coast_loops,
                   lfExit, prev_center>>

\* Lines 134-168: PD centering, speed shaping, pivot or differential drive
LfSteer ==
    /\ lfPc = "sensed"
    /\ ~LossConfirmed
    /\ LET e   == ErrOfReading
           cmd == SteerCmd(e, last_err)
       IN  /\ err' = e
           /\ last_err' = e
           /\ steer' = Steer2(e, last_err)
           /\ base' = Base(e)
           /\ IF PivotEngaged(e)
              THEN /\ l_cmd' = PivotCmd(e)[1]
                   /\ r_cmd' = PivotCmd(e)[2]
                   /\ lfOut' = "pivot"
              ELSE /\ UNCHANGED <<l_cmd, r_cmd>>
                   /\ lfOut' = "diff"
           /\ motor' = Drive(cmd[1], cmd[2])
           /\ last_left' = cmd[1]
           /\ last_right' = cmd[2]
    /\ tickLog' = Append(tickLog, "drive")
    /\ lfPc' = "top"
    /\ UNCHANGED <<supVars, navVars, args, L, M, R, loss_count, coasting, coast_loops,
                   lfExit, prev_center>>

\* KeyboardInterrupt between two statements of the loop (lines 175-176)
LfInterrupt ==
    /\ lfPc \in {"top", "sensed"}
    /\ lfPc' = "finally"
    /\ lfExit' = "interrupt"
    /\ UNCHANGED <<supVars, navVars, args, L, M, R, last_err, loss_count, coasting,
                   coast_loops, last_left, last_right, l_cmd, r_cmd, err, lfOut,
                   base, steer, prev_center, motor, tickLog>>

\* ir.read_one_infrared raises inside read_triplet: nothing in the loop
\* catches it, control goes to the finally clause
LfReadError ==
    /\ lfPc = "top"
    /\ lfPc' = "finally"
    /\ lfExit' = "read_error"
    /\ UNCHANGED <<supVars, navVars, args, L, M, R, last_err, loss_count, coasting,
                   coast_loops, last_left, last_right, l_cmd, r_cmd, err, lfOut,
                   base, steer, prev_center, motor, tickLog>>

\* The command this tick is about to issue
LfPending ==
    IF LossConfirmed
    THEN IF args.stop_on_loss
            \/ (args.loss_timeout # 0 /\ coast_loops + 1 > args.loss_timeout)
         THEN Zero
         ELSE Drive(CoastCmd(last_left), CoastCmd(last_right))
    ELSE Drive(SteerCmd(ErrOfReading, last_err)[1],
               SteerCmd(ErrOfReading, last_err)[2])

\* car.set_motor_model raises after the command went out
LfMotorError ==
    /\ lfPc = "sensed"
    /\ motor' = LfPending
    /\ lfPc' = "finally"
    /\ lfExit' = "error"
    /\ tickLog' = Append(tickLog, "drive")
    /\ UNCHANGED <<supVars, navVars, args, L, M, R, last_err, loss_count, coasting,
                   coast_loops, last_left, last_right, l_cmd, r_cmd, err, lfOut,
                   base, steer, prev_center>>

\* Mutant: the loop is left without the finally clause
LfFinally_Skip ==
    /\ lfPc = "finally"
    /\ lfPc' = "done"
    /\ UNCHANGED <<supVars, navVars, args, L, M, R, last_err, loss_count, coasting,
                   coast_loops, last_left, last_right, l_cmd, r_cmd, err, lfOut, lfExit,
                   base, steer, prev_center, motor, tickLog>>

\* Lines 177-180: finally: car.set_motor_model(0,0,0,0)
LfFinally ==
    /\ lfPc = "finally"
    /\ motor' = Zero
    /\ lfPc' = "done"
    /\ UNCHANGED <<supVars, navVars, args, L, M, R, last_err, loss_count, coasting,
                   coast_loops, last_left, last_right, l_cmd, r_cmd, err, lfOut, lfExit,
                   base, steer, prev_center, tickLog>>

LfNext ==
    \/ LfSense
    \/ LfStopOnLoss
    \/ LfCoast
    \/ LfSteer
    \/ LfInterrupt
    \/ LfReadError
    \/ LfMotorError
    \/ LfFinally

-----------------------------------------------------------------------------
\* obstacle_navigator.py

\* ultrasonic get_distance(): None is written NoEcho
NoEcho == -1
ValidMax == 400       \* _read_cm: upper end of the valid window, cm
Far == 9999           \* _avg_cm: sentinel when no read is valid, cm

\* Values get_distance() returns in the model, cm.  Two valid values whose
\* average is the default threshold: a sample is below, at or above it.
Reads == {NoEcho, 0, 10, 80, 401}

\* <<min, max, center, step>> of an axis
PanCfgs  == {<<60, 120, 90, 30>>, <<70, 110, 90, 25>>}
TiltCfgs == {<<70, 90, 80, 10>>, <<70, 90, 95, 10>>}

\* Constructor arguments main() builds from the command line.
\* --invert-drive, --invert-turn and --pivot are store_true with default=True.
NavArgSpace ==
    [ pan           : PanCfgs,
      tilt          : TiltCfgs,
      invert_drive  : {TRUE},
      invert_turn   : {TRUE},
      obs_th        : {45},
      forward       : {800, 4000},
      turn          : {1200},
      reverse_power : {-1},
      pivot_min_dur : {450, 100},         \* ms
      sample_every_ticks : {1, 2} ]

\* pivot_min_dur is read by _pivot_time_from_dist only; it is varied on the
\* default powers and sampling only
NavArgs ==
    { a \in NavArgSpace :
        a.pivot_min_dur # 450 => (a.forward = 800 /\ a.sample_every_ticks = 1) }

pan_min     == nargs.pan[1]
pan_max     == nargs.pan[2]
pan_center  == nargs.pan[3]
sweep_speed == nargs.pan[4]
tilt_min    == nargs.tilt[1]
tilt_max    == nargs.tilt[2]
tilt_center == nargs.tilt[3]
tilt_step   == nargs.tilt[4]

Max(a, b) == IF a >= b THEN a ELSE b
Min(a, b) == IF a <= b THEN a ELSE b

\* HeadUltrasonicNavigator.__init__
forward_power  == nargs.forward
turn_power     == nargs.turn
nav_drive_sign == IF nargs.invert_drive THEN -1 ELSE 1
turn_sign      == IF nargs.invert_turn THEN -1 ELSE 1
sample_every   == Max(1, nargs.sample_every_ticks)
\* int(p * 0.f); exact for the powers of NavArgs
Frac(p, f)     == TruncDiv(p * f, 10)
reverse_power  == IF nargs.reverse_power # -1 THEN nargs.reverse_power
                  ELSE Frac(forward_power, 8)

\* Mutant: the direction flips at a bound but the position is not clamped
AxisTick_NoClamp(pos, dir, lo, hi, step) ==
    LET nxt == pos + dir * step IN
    IF nxt >= hi THEN <<nxt, -1>>
    ELSE IF nxt <= lo THEN <<nxt, 1>>
    ELSE <<nxt, dir>>

\* Mutant: the position is clamped at a bound but the direction is kept
AxisTick_NoReverse(pos, dir, lo, hi, step) ==
    LET nxt == pos + dir * step IN
    IF nxt >= hi THEN <<hi, dir>>
    ELSE IF nxt <= lo THEN <<lo, dir>>
    ELSE <<nxt, dir>>

\* PanSweeper.tick / TiltOscillator.tick: <<pos, dir>> after one tick
AxisTick(pos, dir, lo, hi, step) ==
    LET nxt == pos + dir * step IN
    IF nxt >= hi THEN <<hi, -1>>
    ELSE IF nxt <= lo THEN <<lo, 1>>
    ELSE <<nxt, dir>>

\* PanServo.angle: deg = int(clamp(deg, self.min_deg, self.max_deg)), the value
\* every setter variant receives
PanAngle(deg) == clamp(deg, pan_min, pan_max)

\* Mutant: the angle goes to the driver as given
TiltAngle_NoClamp(deg) == deg

\* TiltServo.angle, likewise
TiltAngle(deg) == clamp(deg, tilt_min, tilt_max)

\* Mutant: the minimum duration is not applied
pivot_time_NoFloor(dist2) ==
    LET d2 == clamp(dist2, 2 * 10, 2 * 200)
    IN  83600 + 330 * (d2 - 20)

\* _pivot_time_from_dist, in units of 1/380 ms for dist2 in half centimetres:
\* 380000 * (0.22 + 0.33 * (d - 10) / 190) = 83600 + 330 * (2d - 20)
pivot_time_from_dist(dist2) ==
    LET d2 == clamp(dist2, 2 * 10, 2 * 200)
        t  == 83600 + 330 * (d2 - 20)
    IN  Max(nargs.pivot_min_dur * 380, t)

\* stop()
StopCmd == Zero
\* forward(p): p *= drive_sign; set_motor_model(p,p,p,p)
ForwardCmd(p) == LET q == p * nav_drive_sign IN <<q, q, q, q>>
\* reverse(): p = reverse_power * drive_sign; set_motor_model(-p,-p,-p,-p)
ReverseCmd == LET q == reverse_power * nav_drive_sign IN <<-q, -q, -q, -q>>
\* pivot_left / pivot_right
PivotLeftCmd  == LET pw == turn_power * turn_sign IN <<-pw, -pw, pw, pw>>
PivotRightCmd == LET pw == turn_power * turn_sign IN <<pw, pw, -pw, -pw>>

\* Mutant: a read of 0 is kept
ValidRead_ZeroOk(d) == ~(d = NoEcho \/ d < 0 \/ d > ValidMax)

\* _read_cm: is the raw read d kept?
ValidRead(d) == ~(d = NoEcho \/ d <= 0 \/ d > ValidMax)

\* Mutant: the sum of the valid reads is divided by n
Avg2_CountAll(d1, d2) ==
    IF ValidRead(d1) /\ ValidRead(d2) THEN d1 + d2
    ELSE IF ValidRead(d1) THEN d1
    ELSE IF ValidRead(d2) THEN d2
    ELSE 2 * Far

\* _avg_cm(n=2) of the raw reads d1, d2, in half centimetres
Avg2(d1, d2) ==
    IF ValidRead(d1) /\ ValidRead(d2) THEN d1 + d2
    ELSE IF ValidRead(d1) THEN 2 * d1
    ELSE IF ValidRead(d2) THEN 2 * d2
    ELSE 2 * Far

\* ahead <= self.obs_th and left_mid < self.obs_th, distances in half cm
AtOrBelowTh(a2) == a2 <= 2 * nargs.obs_th
BelowTh(a2)     == a2 < 2 * nargs.obs_th

\* Mutant: every tick samples
SamplingTick_Always == ticks % 1 = 0

\* Line 204: is the tick being executed a sampling tick?
SamplingTick == ticks % sample_every = 0

\* Mutant: the offsets are taken from the sweep position
PeekTarget_FromScan(k) ==
    CASE k = 1 -> <<ps_pos + 25, to_pos>>
      [] k = 2 -> <<ps_pos - 25, to_pos>>
      [] k = 3 -> <<ps_pos, Min(tilt_max, to_pos + 15)>>
      [] k = 4 -> <<ps_pos, Max(tilt_min, to_pos - 15)>>

\* Targets of the four peeks of tick(): <<pan_deg, tilt_deg>>
PeekTarget(k) ==
    CASE k = 1 -> <<pan_center + 25, tilt_center>>
      [] k = 2 -> <<pan_center - 25, tilt_center>>
      [] k = 3 -> <<pan_center, Min(tilt_max, tilt_center + 15)>>
      [] k = 4 -> <<pan_center, Max(tilt_min, tilt_center - 15)>>

\* Mutant: a reading at the threshold is rescued too
Clearance_Inclusive(side, up, down) ==
    IF AtOrBelowTh(side) THEN Max(side, Max(up, down)) ELSE side

\* Lines 229-230: clearance of a side from its reading and the vertical ones
Clearance(side, up, down) ==
    IF BelowTh(side) THEN Max(side, Max(up, down)) ELSE side

\* Mutant: a tie pivots left
PivotsLeft_OrEqual == Clearance(left_mid, up_ahead, down_ahead)
                        >= Clearance(right_mid, up_ahead, down_ahead)

\* Line 231: L > R
PivotsLeft == Clearance(left_mid, up_ahead, down_ahead)
                > Clearance(right_mid, up_ahead, down_ahead)

\* Stage of the recovery state machine the navigator is in
Stage ==
    CASE navPc = "stopping" -> "Stopping"
      [] navPc \in {"reversing", "reverse_wait"} -> "Reversing"
      [] navPc \in {"peek_move", "peek_read"} -> "Probing"
      [] navPc \in {"pivoting", "pivot_wait"} -> "Pivoting"
      [] navPc \in {"rolling", "roll_wait"} -> "Rolling"
      [] OTHER -> "Scanning"

\* State after construction: both sweepers built (head at center), nav built
NavInit ==
    /\ nargs \in NavArgs
    /\ navPc = "top"
    /\ ps_pos = nargs.pan[3] /\ ps_dir = 1
    /\ to_pos = nargs.tilt[3] /\ to_dir = 1
    /\ pan_deg = nargs.pan[3] /\ tilt_deg = nargs.tilt[3]
    /\ pan_out = PanAngle(nargs.pan[3]) /\ tilt_out = TiltAngle(nargs.tilt[3])
    /\ ticks = 0
    /\ last_ahead = 2 * Far
    /\ us_reads = <<>>
    /\ probe = 0
    /\ left_mid = 0 /\ right_mid = 0 /\ up_ahead = 0 /\ down_ahead = 0
    /\ dur = 0
    /\ clear = <<0, 0>>
    /\ recoveries = 0
    /\ recLog = <<>>
    /\ navExit = "none"

\* Line 196: ppos = self.ps.tick()
NavPanTick ==
    /\ navPc = "top"
    /\ ticks < MaxTicks
    /\ LET n == AxisTick(ps_pos, ps_dir, pan_min, pan_max, Max(1, sweep_speed)) IN
         /\ ps_pos' = n[1] /\ ps_dir' = n[2]
         /\ pan_deg' = n[1]
    /\ navPc' = "panned"
    /\ UNCHANGED <<supVars, lfVars, nargs, to_pos, to_dir, tilt_deg, ticks, last_ahead, us_reads,
                   probeVars, recoveries, recLog, navExit, motor>>
    /\ pan_out' = PanAngle(pan_deg')
    /\ tickLog' = <<"pan">>
    /\ UNCHANGED <<tilt_out>>

\* Lines 197-198: tpos = self.to.tick(); self.ticks += 1
NavTiltTick ==
    /\ navPc = "panned"
    /\ LET n == AxisTick(to_pos, to_dir, tilt_min, tilt_max, Max(1, tilt_step)) IN
         /\ to_pos' = n[1] /\ to_dir' = n[2]
         /\ tilt_deg' = n[1]
    /\ ticks' = ticks + 1
    /\ navPc' = "swept"
    /\ UNCHANGED <<supVars, lfVars, nargs, ps_pos, ps_dir, pan_deg, last_ahead, us_reads,
                   probeVars, recoveries, recLog, navExit, motor>>
    /\ tilt_out' = TiltAngle(tilt_deg')
    /\ tickLog' = Append(tickLog, "tilt")
    /\ UNCHANGED <<pan_out>>

\* Mutant: the tick does not creep
NavCreep_Skip ==
    /\ navPc = "swept"
    /\ navPc' = "creep"
    /\ UNCHANGED <<supVars, lfVars, nargs, headVars, ticks, last_ahead, us_reads,
                   probeVars, recoveries, recLog, navExit, motor, tickLog>>

\* Line 201: self.forward(int(self.forward_power*0.6))
NavCreep ==
    /\ navPc = "swept"
    /\ motor' = ForwardCmd(Frac(forward_power, 6))
    /\ navPc' = "creep"
    /\ UNCHANGED <<supVars, lfVars, nargs, headVars, ticks, last_ahead, us_reads,
                   probeVars, recoveries, recLog, navExit>>
    /\ tickLog' = Append(tickLog, "drive")

\* Mutant: edge-triggered, a recovery needs the previous sample above the threshold
NavSample_Edge ==
    /\ navPc = "creep"
    /\ IF SamplingTick
       THEN \E d1, d2 \in Reads :
              LET ahead == Avg2(d1, d2) IN
              /\ last_ahead' = ahead
              /\ us_reads' = <<d1, d2>>
              /\ IF AtOrBelowTh(ahead) /\ ~AtOrBelowTh(last_ahead)
                 THEN /\ navPc' = "stopping"
                      /\ recoveries' = recoveries + 1
                      /\ recLog' = <<>>
                 ELSE /\ navPc' = "sleep"
                      /\ UNCHANGED <<recoveries, recLog>>
       ELSE /\ navPc' = "sleep"
            /\ us_reads' = <<>>
            /\ UNCHANGED <<last_ahead, recoveries, recLog>>
    /\ UNCHANGED <<supVars, lfVars, nargs, headVars, ticks, probeVars, navExit, motor>>
    /\ tickLog' = IF SamplingTick THEN Append(tickLog, "range") ELSE tickLog

\* Lines 204-210: on a sampling tick average two reads, publish the result and
\* compare it with the threshold; tick() returns when no recovery is due
NavSample ==
    /\ navPc = "creep"
    /\ IF SamplingTick
       THEN \E d1, d2 \in Reads :
              LET ahead == Avg2(d1, d2) IN
              /\ last_ahead' = ahead
              /\ us_reads' = <<d1, d2>>
              /\ IF AtOrBelowTh(ahead)
                 THEN /\ navPc' = "stopping"
                      /\ recoveries' = recoveries + 1
                      /\ recLog' = <<>>
                 ELSE /\ navPc' = "sleep"
                      /\ UNCHANGED <<recoveries, recLog>>
       ELSE /\ navPc' = "sleep"
            /\ us_reads' = <<>>
            /\ UNCHANGED <<last_ahead, recoveries, recLog>>
    /\ UNCHANGED <<supVars, lfVars, nargs, headVars, ticks, probeVars, navExit, motor>>
    /\ tickLog' = IF SamplingTick THEN Append(tickLog, "range") ELSE tickLog

\* Line 212: self.stop()
NavStop ==
    /\ navPc = "stopping"
    /\ motor' = StopCmd
    /\ recLog' = Append(recLog, StopCmd)
    /\ us_reads' = <<>>
    /\ navPc' = "reversing"
    /\ UNCHANGED <<supVars, lfVars, nargs, headVars, ticks, last_ahead, probeVars,
                   recoveries, navExit>>
    /\ tickLog' = Append(tickLog, "drive")

\* Line 215, reverse(): set_motor_model(-p,-p,-p,-p), then time.sleep(t)
NavReverseGo ==
    /\ navPc = "reversing"
    /\ motor' = ReverseCmd
    /\ recLog' = Append(recLog, ReverseCmd)
    /\ navPc' = "reverse_wait"
    /\ UNCHANGED <<supVars, lfVars, nargs, headVars, ticks, last_ahead, us_reads, probeVars,
                   recoveries, navExit>>
    /\ tickLog' = Append(tickLog, "drive")

\* Mutant: after the reverse the distance is looked at again and a blocked
\* path restarts the sequence
NavReverseEnd_Reenter ==
    /\ navPc = "reverse_wait"
    /\ motor' = StopCmd
    /\ recLog' = Append(recLog, StopCmd)
    /\ IF AtOrBelowTh(last_ahead)
       THEN /\ navPc' = "stopping"
            /\ recoveries' = recoveries + 1
            /\ UNCHANGED probe
       ELSE /\ navPc' = "peek_move"
            /\ probe' = 1
            /\ UNCHANGED recoveries
    /\ UNCHANGED <<supVars, lfVars, nargs, headVars, ticks, last_ahead, us_reads,
                   left_mid, right_mid, up_ahead, down_ahead, navExit>>
    /\ tickLog' = Append(tickLog, "drive")
    /\ UNCHANGED <<dur, clear>>

\* reverse(): the sleep is over, self.stop()
NavReverseEnd ==
    /\ navPc = "reverse_wait"
    /\ motor' = StopCmd
    /\ recLog' = Append(recLog, StopCmd)
    /\ probe' = 1
    /\ navPc' = "peek_move"
    /\ UNCHANGED <<supVars, lfVars, nargs, headVars, ticks, last_ahead, us_reads,
                   left_mid, right_mid, up_ahead, down_ahead, recoveries, navExit>>
    /\ tickLog' = Append(tickLog, "drive")
    /\ UNCHANGED <<dur, clear>>

\* _peek_pan_tilt, lines 180-182: point the head at the clamped target
NavPeekMove ==
    /\ navPc = "peek_move"
    /\ pan_deg' = clamp(PeekTarget(probe)[1], pan_min, pan_max)
    /\ tilt_deg' = clamp(PeekTarget(probe)[2], tilt_min, tilt_max)
    /\ navPc' = "peek_read"
    /\ UNCHANGED <<supVars, lfVars, nargs, ps_pos, ps_dir, to_pos, to_dir, ticks, last_ahead, us_reads,
                   probeVars, recoveries, recLog, navExit, motor>>
    /\ pan_out' = PanAngle(pan_deg')
    /\ tilt_out' = TiltAngle(tilt_deg')
    /\ tickLog' = tickLog \o <<"pan", "tilt">>

\* Mutant: the head is left at the peek angles
NavPeekRead_NoRestore ==
    /\ navPc = "peek_read"
    /\ \E d1, d2 \in Reads :
         LET d == Avg2(d1, d2) IN
         /\ left_mid'   = IF probe = 1 THEN d ELSE left_mid
         /\ right_mid'  = IF probe = 2 THEN d ELSE right_mid
         /\ up_ahead'   = IF probe = 3 THEN d ELSE up_ahead
         /\ down_ahead' = IF probe = 4 THEN d ELSE down_ahead
    /\ UNCHANGED <<pan_deg, tilt_deg>>
    /\ IF probe < 4
       THEN probe' = probe + 1 /\ navPc' = "peek_move"
       ELSE probe' = 0 /\ navPc' = "pivoting"
    /\ UNCHANGED <<supVars, lfVars, nargs, ps_pos, ps_dir, to_pos, to_dir, ticks, last_ahead, us_reads,
                   recoveries, recLog, navExit, motor>>
    /\ pan_out' = PanAngle(pan_deg')
    /\ tilt_out' = TiltAngle(tilt_deg')
    /\ tickLog' = tickLog \o <<"range", "pan", "tilt">>
    /\ UNCHANGED <<dur, clear>>

\* _peek_pan_tilt, lines 183-186: average two reads, return the head to the
\* sweep position; the result is stored in the local of the peek
NavPeekRead ==
    /\ navPc = "peek_read"
    /\ \E d1, d2 \in Reads :
         LET d == Avg2(d1, d2) IN
         /\ left_mid'   = IF probe = 1 THEN d ELSE left_mid
         /\ right_mid'  = IF probe = 2 THEN d ELSE right_mid
         /\ up_ahead'   = IF probe = 3 THEN d ELSE up_ahead
         /\ down_ahead' = IF probe = 4 THEN d ELSE down_ahead
    /\ pan_deg' = ps_pos
    /\ tilt_deg' = to_pos
    /\ IF probe < 4
       THEN probe' = probe + 1 /\ navPc' = "peek_move"
       ELSE probe' = 0 /\ navPc' = "pivoting"
    /\ UNCHANGED <<supVars, lfVars, nargs, ps_pos, ps_dir, to_pos, to_dir, ticks, last_ahead, us_reads,
                   recoveries, recLog, navExit, motor>>
    /\ pan_out' = PanAngle(pan_deg')
    /\ tilt_out' = TiltAngle(tilt_deg')
    /\ tickLog' = tickLog \o <<"range", "pan", "tilt">>
    /\ UNCHANGED <<dur, clear>>

\* Lines 229-238: choose the side, pivot_left/pivot_right: set_motor_model,
\* then time.sleep(dur).  up_ahead and down_ahead are dead from here on, the
\* horizontal readings and L, R when the pivot returns.
NavPivotGo ==
    /\ navPc = "pivoting"
    /\ LET cmd == IF PivotsLeft THEN PivotLeftCmd ELSE PivotRightCmd IN
         /\ motor' = cmd
         /\ recLog' = Append(recLog, cmd)
    /\ up_ahead' = 0 /\ down_ahead' = 0
    /\ UNCHANGED <<left_mid, right_mid>>
    /\ navPc' = "pivot_wait"
    /\ UNCHANGED <<supVars, lfVars, nargs, headVars, ticks, last_ahead, us_reads, probe,
                   recoveries, navExit>>
    /\ clear' = <<Clearance(left_mid, up_ahead, down_ahead),
                  Clearance(right_mid, up_ahead, down_ahead)>>
    /\ dur' = IF PivotsLeft
              THEN pivot_time_from_dist(Clearance(left_mid, up_ahead, down_ahead))
              ELSE pivot_time_from_dist(Clearance(right_mid, up_ahead, down_ahead))
    /\ tickLog' = Append(tickLog, "drive")

\* Mutant: the pivot is not followed by stop()
NavPivotEnd_NoStop ==
    /\ navPc = "pivot_wait"
    /\ navPc' = "rolling"
    /\ UNCHANGED <<supVars, lfVars, nargs, headVars, ticks, last_ahead, us_reads, probe,
                   up_ahead, down_ahead,
                   recoveries, recLog, navExit, motor>>
    /\ left_mid' = 0 /\ right_mid' = 0
    /\ dur' = 0
    /\ clear' = <<0, 0>>
    /\ UNCHANGED <<tickLog>>

\* pivot_left/pivot_right: the sleep is over, self.stop()
NavPivotEnd ==
    /\ navPc = "pivot_wait"
    /\ motor' = StopCmd
    /\ recLog' = Append(recLog, StopCmd)
    /\ navPc' = "rolling"
    /\ UNCHANGED <<supVars, lfVars, nargs, headVars, ticks, last_ahead, us_reads, probe,
                   up_ahead, down_ahead,
                   recoveries, navExit>>
    /\ left_mid' = 0 /\ right_mid' = 0
    /\ dur' = 0
    /\ clear' = <<0, 0>>
    /\ tickLog' = Append(tickLog, "drive")

\* Lines 241-242: self.forward(int(self.forward_power*0.7)); time.sleep(...)
NavRollGo ==
    /\ navPc = "rolling"
    /\ motor' = ForwardCmd(Frac(forward_power, 7))
    /\ recLog' = Append(recLog, ForwardCmd(Frac(forward_power, 7)))
    /\ navPc' = "roll_wait"
    /\ UNCHANGED <<supVars, lfVars, nargs, headVars, ticks, last_ahead, us_reads, probeVars,
                   recoveries, navExit>>
    /\ tickLog' = Append(tickLog, "drive")

\* Line 243: self.stop(); tick() returns
NavRollEnd ==
    /\ navPc = "roll_wait"
    /\ motor' = StopCmd
    /\ recLog' = Append(recLog, StopCmd)
    /\ navPc' = "sleep"
    /\ UNCHANGED <<supVars, lfVars, nargs, headVars, ticks, last_ahead, us_reads, probeVars,
                   recoveries, navExit>>
    /\ tickLog' = Append(tickLog, "drive")

\* main(), line 297: time.sleep(args.period), then the next tick
NavSleep ==
    /\ navPc = "sleep"
    /\ navPc' = "top"
    /\ recLog' = <<>>
    /\ us_reads' = <<>>
    /\ UNCHANGED <<supVars, lfVars, nargs, headVars, ticks, last_ahead, probeVars,
                   recoveries, navExit, motor>>
    /\ tickLog' = <<>>

\* KeyboardInterrupt anywhere in the loop, blocking waits included
\* (lines 298-299)
NavInterrupt ==
    /\ navPc \notin {"idle", "finally", "done", "finally_err", "failed"}
    /\ navPc' = "finally"
    /\ navExit' = navPc
    /\ UNCHANGED <<supVars, lfVars, nargs, headVars, ticks, last_ahead, us_reads, probeVars,
                   recoveries, recLog, motor>>
    /\ UNCHANGED <<tickLog>>

\* Mutant: the head is left where it is
NavFinally_NoCenter ==
    /\ navPc = "finally"
    /\ motor' = StopCmd
    /\ navPc' = "done"
    /\ UNCHANGED <<supVars, lfVars, nargs, headVars, ticks, last_ahead, us_reads,
                   probeVars, recoveries, recLog, navExit>>
    /\ UNCHANGED <<tickLog>>

\* Lines 300-306: finally: nav.stop(); pan.angle(center); tilt.angle(center)
NavFinally ==
    /\ navPc = "finally"
    /\ motor' = StopCmd
    /\ pan_deg' = pan_center
    /\ tilt_deg' = tilt_center
    /\ navPc' = "done"
    /\ UNCHANGED <<supVars, lfVars, nargs, ps_pos, ps_dir, to_pos, to_dir, ticks, last_ahead, us_reads,
                   probeVars, recoveries, recLog, navExit>>
    /\ pan_out' = PanAngle(pan_deg')
    /\ tilt_out' = TiltAngle(tilt_deg')
    /\ UNCHANGED <<tickLog>>

\* Positions of tick() whose next statement commands the pan servo, the tilt
\* servo or the drivetrain
CommandPcs ==
    {"top", "panned", "swept", "stopping", "reversing", "reverse_wait", "peek_move",
     "peek_read", "pivoting", "pivot_wait", "rolling", "roll_wait"}

\* A command raises: set_motor_model raises (nothing in stop/forward/reverse/
\* pivot_* or tick catches it), or a servo setter raises something other than
\* TypeError (PanServo.angle / TiltServo.angle catch TypeError only).  main()
\* catches KeyboardInterrupt only, so control leaves the loop for the finally
\* clause with the exception pending.
NavActuatorError ==
    /\ navPc \in CommandPcs
    /\ navPc' = "finally_err"
    /\ navExit' = "error"
    /\ UNCHANGED <<supVars, lfVars, nargs, headVars, ticks, last_ahead, us_reads,
                   probeVars, recoveries, recLog, motor, tickLog>>

\* Lines 300-306 with the exception pending: nav.stop() is issued; if it
\* raises too the centering is skipped; a raise of pan.angle is swallowed and
\* skips tilt.angle.  Then the exception leaves main().
NavFinallyErr ==
    /\ navPc = "finally_err"
    /\ motor' = StopCmd
    /\ \E reached \in {"stop", "pan", "tilt"} :
         /\ pan_deg' = IF reached = "stop" THEN pan_deg ELSE pan_center
         /\ tilt_deg' = IF reached = "tilt" THEN tilt_center ELSE tilt_deg
    /\ pan_out' = PanAngle(pan_deg')
    /\ tilt_out' = TiltAngle(tilt_deg')
    /\ navPc' = "failed"
    /\ UNCHANGED <<supVars, lfVars, nargs, ps_pos, ps_dir, to_pos, to_dir, ticks,
                   last_ahead, us_reads, probeVars, recoveries, recLog, navExit, tickLog>>

NavNext ==
    \/ NavPanTick
    \/ NavTiltTick
    \/ NavCreep
    \/ NavSample
    \/ NavStop
    \/ NavReverseGo
    \/ NavReverseEnd
    \/ NavPeekMove
    \/ NavPeekRead
    \/ NavPivotGo
    \/ NavPivotEnd
    \/ NavRollGo
    \/ NavRollEnd
    \/ NavSleep
    \/ NavInterrupt
    \/ NavFinally
    \/ NavActuatorError
    \/ NavFinallyErr

-----------------------------------------------------------------------------
\* The two oscillators as objects, ticked on their own (PanSweeper.tick and
\* TiltOscillator.tick without the navigator around them)

\* PanSweeper.tick, lines 90-98
PanSweeperTick ==
    /\ navPc = "top"
    /\ LET n == AxisTick(ps_pos, ps_dir, pan_min, pan_max, Max(1, sweep_speed)) IN
         /\ ps_pos' = n[1] /\ ps_dir' = n[2]
         /\ pan_deg' = n[1]
    /\ pan_out' = PanAngle(pan_deg')
    /\ UNCHANGED <<supVars, lfVars, nargs, navPc, to_pos, to_dir, tilt_deg, tilt_out,
                   ticks, last_ahead, us_reads, probeVars, recoveries, recLog, navExit,
                   motor, tickLog>>

\* TiltOscillator.tick, lines 114-122
TiltOscillatorTick ==
    /\ navPc = "top"
    /\ LET n == AxisTick(to_pos, to_dir, tilt_min, tilt_max, Max(1, tilt_step)) IN
         /\ to_pos' = n[1] /\ to_dir' = n[2]
         /\ tilt_deg' = n[1]
    /\ tilt_out' = TiltAngle(tilt_deg')
    /\ UNCHANGED <<supVars, lfVars, nargs, navPc, ps_pos, ps_dir, pan_deg, pan_out,
                   ticks, last_ahead, us_reads, probeVars, recoveries, recLog, navExit,
                   motor, tickLog>>

SweepNext ==
    \/ PanSweeperTick
    \/ TiltOscillatorTick

-----------------------------------------------------------------------------
\* car_tui.py: process management of the terminal supervisor

\* Keys of procs: "lf" is line_follow.py, "obs" is obstacle_navigator.py
Keys == {"lf", "obs"}

\* _is_running(procs[key])
is_running(key) == procs[key] # 0 /\ <<key, procs[key]>> \in running

\* Mutant: the handle is dropped, the process is left alone
kill_proc_Forget(key) ==
    /\ running' = running
    /\ procs' = [procs EXCEPT ![key] = 0]

\* kill_proc(key): _stop_tree escalates SIGINT, SIGTERM, SIGKILL on the process
\* group until the process is gone; then procs[key] = None
kill_proc(key) ==
    /\ running' = running \ {<<key, procs[key]>>}
    /\ procs' = [procs EXCEPT ![key] = 0]

\* _popen_group for procs[key]: a new process in its own group
popen_group(key) ==
    /\ running' = running \cup {<<key, next_pid>>}
    /\ procs' = [procs EXCEPT ![key] = next_pid]
    /\ next_pid' = next_pid + 1

TuiInit ==
    /\ running = {}
    /\ next_pid = 1
    /\ procs = [k \in Keys |-> 0]
    /\ tuiPc = "getch"
    /\ pidfile = [k \in Keys |-> 0]

\* Key 'l', start_line_follow line 168: kill_proc("obs")
TuiStartLfKillObs ==
    /\ tuiPc = "getch"
    /\ next_pid <= MaxPid
    /\ kill_proc("obs")
    /\ tuiPc' = "lf_kill"
    /\ UNCHANGED <<lfVars, navVars, motor, tickLog, next_pid, pidfile>>

\* start_line_follow line 174, first statement: kill_proc("lf")
TuiStartLfKillLf ==
    /\ tuiPc = "lf_kill"
    /\ kill_proc("lf")
    /\ tuiPc' = "lf_spawn"
    /\ UNCHANGED <<lfVars, navVars, motor, tickLog, next_pid, pidfile>>

\* start_line_follow line 174, second statement: procs["lf"] = _popen_group(args)
TuiStartLfSpawn ==
    /\ tuiPc = "lf_spawn"
    /\ popen_group("lf")
    /\ tuiPc' = "getch"
    /\ UNCHANGED <<lfVars, navVars, motor, tickLog, pidfile>>

\* Key 'k', stop_line_follow
TuiStopLineFollow ==
    /\ tuiPc = "getch"
    /\ kill_proc("lf")
    /\ UNCHANGED <<lfVars, navVars, motor, tickLog, next_pid, tuiPc, pidfile>>

\* Key 'o', start_obs_nav line 177: ultra_stop(...); kill_proc("lf")
TuiStartObsKillLf ==
    /\ tuiPc = "getch"
    /\ next_pid <= MaxPid
    /\ kill_proc("lf")
    /\ tuiPc' = "obs_kill"
    /\ UNCHANGED <<lfVars, navVars, motor, tickLog, next_pid, pidfile>>

\* start_obs_nav line 178, first statement: kill_proc("obs")
TuiStartObsKillObs ==
    /\ tuiPc = "obs_kill"
    /\ kill_proc("obs")
    /\ tuiPc' = "obs_spawn"
    /\ UNCHANGED <<lfVars, navVars, motor, tickLog, next_pid, pidfile>>

\* start_obs_nav line 178, second statement: procs["obs"] = _popen_group(...)
TuiStartObsSpawn ==
    /\ tuiPc = "obs_spawn"
    /\ popen_group("obs")
    /\ tuiPc' = "getch"
    /\ UNCHANGED <<lfVars, navVars, motor, tickLog, pidfile>>

\* Key 'p', stop_obs_nav
TuiStopObsNav ==
    /\ tuiPc = "getch"
    /\ kill_proc("obs")
    /\ UNCHANGED <<lfVars, navVars, motor, tickLog, next_pid, tuiPc, pidfile>>

\* A controller process ends by itself (its loop was left on an error); the
\* supervisor keeps the handle or the pid file
ChildExit ==
    /\ \E p \in running : running' = running \ {p}
    /\ UNCHANGED <<lfVars, navVars, motor, tickLog, next_pid, procs, tuiPc, pidfile>>

TuiNext ==
    \/ TuiStartLfKillObs
    \/ TuiStartLfKillLf
    \/ TuiStartLfSpawn
    \/ TuiStopLineFollow
    \/ TuiStartObsKillLf
    \/ TuiStartObsKillObs
    \/ TuiStartObsSpawn
    \/ TuiStopObsNav
    \/ ChildExit

-----------------------------------------------------------------------------
\* command_listener.py: handle_line_tracking / handle_obstacle_avoidance.
\* on_message runs the handlers one at a time on the MQTT network thread.

\* os.kill(pid, 0) succeeds: some process has the pid of the pid file
pid_alive(key) == \E p \in running : p[2] = pidfile[key]

\* The processes the stop branch removes: the one of the pid file (killpg,
\* kill) and every process whose command line matches the script (pkill -f,
\* then pgrep -f and SIGKILL)
Stopped(key) == {p \in running : p[1] = key \/ p[2] = pidfile[key]}

MqttInit ==
    /\ running = {}
    /\ next_pid = 1
    /\ procs = [k \in Keys |-> 0]
    /\ tuiPc = "idle"
    /\ pidfile = [k \in Keys |-> 0]

\* command == "start" of either handler, for the script of key: return if the
\* pid file names a live process, else drop the stale file, Popen the script,
\* write its pid; after a second unlink the file if the process has exited
MqttStart(key) ==
    /\ next_pid <= MaxPid
    /\ IF pidfile[key] # 0 /\ pid_alive(key)
       THEN UNCHANGED <<running, next_pid, pidfile>>
       ELSE /\ next_pid' = next_pid + 1
            /\ \E exited \in BOOLEAN :
                 IF exited
                 THEN /\ pidfile' = [pidfile EXCEPT ![key] = 0]
                      /\ UNCHANGED running
                 ELSE /\ pidfile' = [pidfile EXCEPT ![key] = next_pid]
                      /\ running' = running \cup {<<key, next_pid>>}
    /\ UNCHANGED <<lfVars, navVars, motor, tickLog, procs, tuiPc>>

\* command == "stop" of either handler: kill by pid file, kill by name,
\* unlink the pid file
MqttStop(key) ==
    /\ running' = running \ Stopped(key)
    /\ pidfile' = [pidfile EXCEPT ![key] = 0]
    /\ UNCHANGED <<lfVars, navVars, motor, tickLog, next_pid, procs, tuiPc>>

\* handle_line_tracking(command)
handle_line_tracking == MqttStart("lf") \/ MqttStop("lf")

\* handle_obstacle_avoidance(command)
handle_obstacle_avoidance == MqttStart("obs") \/ MqttStop("obs")

MqttNext ==
    \/ handle_line_tracking
    \/ handle_obstacle_avoidance
    \/ ChildExit

-----------------------------------------------------------------------------
\* Specifications.  The supervisor runs one controller at a time; the other
\* one is not started.

LfIdle ==
    /\ args = CHOOSE a \in LfArgs : TRUE
    /\ lfPc = "idle"
    /\ L = 0 /\ M = 0 /\ R = 0
    /\ last_err = 0 /\ loss_count = 0 /\ coasting = FALSE /\ coast_loops = 0
    /\ last_left = 0 /\ last_right = 0 /\ l_cmd = 0 /\ r_cmd = 0
    /\ err = 0 /\ lfOut = "none" /\ lfExit = "none"
    /\ base = 0 /\ steer = 0 /\ prev_center = FALSE

NavIdle ==
    /\ nargs = CHOOSE a \in NavArgs : TRUE
    /\ navPc = "idle"
    /\ ps_pos = 0 /\ ps_dir = 1 /\ to_pos = 0 /\ to_dir = 1
    /\ pan_deg = 0 /\ tilt_deg = 0 /\ pan_out = 0 /\ tilt_out = 0
    /\ ticks = 0 /\ last_ahead = 2 * Far /\ us_reads = <<>>
    /\ probe = 0
    /\ left_mid = 0 /\ right_mid = 0 /\ up_ahead = 0 /\ down_ahead = 0
    /\ dur = 0
    /\ clear = <<0, 0>>
    /\ recoveries = 0 /\ recLog = <<>> /\ navExit = "none"

\* No supervisor in the picture: the controller was started by hand
SupIdle ==
    /\ running = {}
    /\ next_pid = 1
    /\ procs = [k \in Keys |-> 0]
    /\ tuiPc = "idle"
    /\ pidfile = [k \in Keys |-> 0]

InitLF == LfInit /\ NavIdle /\ SupIdle /\ motor = Zero /\ tickLog = <<>>

InitNav == NavInit /\ LfIdle /\ SupIdle /\ motor = Zero /\ tickLog = <<>>

\* Either controller, started by hand
InitBoth == InitLF \/ InitNav

\* The terminal supervisor; the controllers it spawns are separate processes
InitTui == TuiInit /\ LfIdle /\ NavIdle /\ motor = Zero /\ tickLog = <<>>

\* The MQTT command listener
InitMqtt == MqttInit /\ LfIdle /\ NavIdle /\ motor = Zero /\ tickLog = <<>>

SpecLF == InitLF /\ [][LfNext]_vars

\* The line follower under either setting of the two sign switches
InitSigns == LfInitSigns /\ NavIdle /\ SupIdle /\ motor = Zero /\ tickLog = <<>>

SpecSigns == InitSigns /\ [][LfNext]_vars

SpecNav == InitNav /\ [][NavNext]_vars

SpecBoth == InitBoth /\ [][LfNext \/ NavNext]_vars

SpecTui == InitTui /\ [][TuiNext]_vars

SpecMqtt == InitMqtt /\ [][MqttNext]_vars

\* The oscillators right after construction (head at center, direction +1),
\* then ticked for ever: the loop of main() ticks each of them once per
\* iteration, so neither is starved
InitSweep == NavInit /\ LfIdle /\ SupIdle /\ motor = Zero /\ tickLog = <<>>

SpecSweep ==
    /\ InitSweep
    /\ [][SweepNext]_vars
    /\ WF_vars(PanSweeperTick)
    /\ WF_vars(TiltOscillatorTick)

-----------------------------------------------------------------------------
\* Verification of the claims

InRange(cmd) == \A i \in 1..4 : cmd[i] >= -CmdMax /\ cmd[i] <= CmdMax

\* C1: every wheel power either controller passes to the drivetrain lies in
\* [-2000, 2000], for every configuration of powers.  (Stated over the
\* drivetrain shared by both loops; the navigator violates it.)
C1_WheelPowerInRange == InRange(motor)

\* C2: once the line-follow loop has started, whichever way it is left
\* (interrupt, sensor error, motor error) the last command issued before
\* main() returns is (0,0,0,0).
C2_ZeroOnExit == lfPc = "done" => motor = Zero

\* Witness: the loop was interrupted after it had issued a pivot command
C2_Witness ==
    /\ lfPc = "done"
    /\ lfExit = "interrupt"
    /\ lfOut = "pivot"
    /\ last_left # 0

C4_NonReentrant ==
    [][Stage # "Scanning" =>
          /\ recoveries' = recoveries
          /\ last_ahead' = last_ahead
          /\ navPc' # "stopping"]_vars

\* Witness: a recovery at its pivot decision whose trigger and four probes
\* all read at or below the threshold, still the only recovery
C4_Witness ==
    /\ navPc = "pivoting"
    /\ recoveries = 1
    /\ AtOrBelowTh(last_ahead)
    /\ AtOrBelowTh(left_mid) /\ AtOrBelowTh(right_mid)
    /\ AtOrBelowTh(up_ahead) /\ AtOrBelowTh(down_ahead)

\* C5 as stated: a recovery starts only when the previous ahead sample was
\* above the threshold (once per crossing).
C5_OncePerCrossing ==
    [][(navPc = "creep" /\ navPc' = "stopping") => ~AtOrBelowTh(last_ahead)]_vars

\* C5 amended: a recovery is triggered exactly once per sampling tick whose
\* ahead distance is at or below the threshold, whatever the previous sample
\* was; nothing else starts one.
C5_OncePerLowSample ==
    [][/\ (navPc = "creep" /\ SamplingTick /\ navPc' # "finally")
            => ((navPc' = "stopping") <=> last_ahead' <= 2 * nargs.obs_th)
       /\ recoveries' = IF navPc # "stopping" /\ navPc' = "stopping"
                        THEN recoveries + 1 ELSE recoveries]_vars

\* Witness: the second of two recoveries started on two consecutive sampling
\* ticks, no sample above the threshold in between
C5_Witness ==
    /\ navPc = "stopping"
    /\ recoveries = 2
    /\ ticks = 2
    /\ last_ahead = 20

\* C6: a recovery runs Stop, Reverse, Probe, Pivot, Roll in this order and the
\* drivetrain receives zero, reverse power, zero, nothing during the probes,
\* one pivot command, zero, roll power, zero; then the navigator is Scanning.
C6_Roll == LET q == TruncDiv(nargs.forward * 7, 10) * nav_drive_sign IN <<q, q, q, q>>
C6_Reverse == LET q == reverse_power * nav_drive_sign IN <<-q, -q, -q, -q>>
C6_IsPrefix(log) ==
    /\ Len(log) <= 7
    /\ \A i \in 1..Len(log) :
         CASE i \in {1, 3, 5, 7} -> log[i] = Zero
           [] i = 2 -> log[i] = C6_Reverse
           [] i = 4 -> log[i] \in {PivotLeftCmd, PivotRightCmd}
           [] i = 6 -> log[i] = C6_Roll
C6_StageOrder ==
    /\ C6_IsPrefix(recLog)
    /\ Stage = "Stopping"  => Len(recLog) = 0
    /\ Stage = "Reversing" => Len(recLog) = IF navPc = "reversing" THEN 1 ELSE 2
    /\ Stage = "Probing"   => Len(recLog) = 3 /\ probe \in 1..4
    /\ Stage = "Pivoting"  => Len(recLog) = IF navPc = "pivoting" THEN 3 ELSE 4
    /\ Stage = "Rolling"   => Len(recLog) = IF navPc = "rolling" THEN 5 ELSE 6
    /\ (navPc = "sleep" /\ recLog # <<>>) => Len(recLog) = 7
    /\ (Stage # "Scanning" /\ recLog # <<>>) => motor = recLog[Len(recLog)]
    /\ navPc = "sleep" => motor \in {Zero, ForwardCmd(Frac(forward_power, 6))}

\* Witness: a recovery has run through all its stages and tick() has returned
C6_Witness ==
    /\ navPc = "sleep"
    /\ Len(recLog) = 7
    /\ recLog[4] = PivotLeftCmd

\* C7: a read that is missing, <= 0 or > 400 never triggers a recovery: it is
\* left out of the average, and a sample whose reads are all invalid gives the
\* far sentinel and starts no recovery.
C7_ValidIdx == {i \in 1..2 : us_reads[i] >= 1 /\ us_reads[i] <= 400}
C7_Sum == IF C7_ValidIdx = {} THEN 0
          ELSE IF C7_ValidIdx = {1, 2} THEN us_reads[1] + us_reads[2]
          ELSE us_reads[CHOOSE i \in C7_ValidIdx : TRUE]
C7_InvalidNeverTriggers ==
    (navPc \in {"stopping", "sleep"} /\ us_reads # <<>>) =>
        /\ C7_ValidIdx = {} => (last_ahead = 2 * 9999 /\ navPc = "sleep")
        /\ C7_ValidIdx # {} => last_ahead * Cardinality(C7_ValidIdx) = 2 * C7_Sum
        /\ navPc = "stopping" =>
              (C7_ValidIdx # {}
                 /\ C7_Sum <= nargs.obs_th * Cardinality(C7_ValidIdx))

\* Witness: one read timed out, the other is out of the window: no recovery
C7_Witness ==
    /\ navPc = "sleep"
    /\ us_reads = <<NoEcho, 401>>
    /\ last_ahead = 2 * Far

\* C8 as stated: the coast command at tick lossConfirm + k of the dark run is
\* round(lastCommand * coastScale^k) until lossTimeout is reached, zero after.
C8_Round(a, b) == (2 * a + b) \div (2 * b)
C8_Compounded(x, k) ==
    C8_Round(x * Pow(args.coast_scale[1], k), Pow(args.coast_scale[2], k))
C8_CompoundedCoast ==
    (lfPc = "top" /\ lfOut \in {"coast", "timeout"}) =>
        LET k == loss_count - args.loss_confirm IN
        IF args.loss_timeout = 0 \/ k < args.loss_timeout
        THEN motor = Drive(C8_Compounded(last_left, k), C8_Compounded(last_right, k))
        ELSE motor = Zero

\* C8 amended: with stopOnLoss=false every tick lossConfirm + k (k >= 0) of a
\* dark run emits the same command, int(clamp(lastCommand * coastScale, -2000,
\* 2000)), lastCommand being left untouched by coast ticks; when lossTimeout
\* = T > 0 this holds for k < T and the command is zero from k = T on.
C8_Scaled(x) ==
    clamp(TruncDiv(x * args.coast_scale[1], args.coast_scale[2]), -2000, 2000)
C8_ConstantCoast ==
    [][(lfPc = "sensed" /\ lfPc' = "top" /\ on = 0
          /\ loss_count >= args.loss_confirm /\ ~args.stop_on_loss) =>
         LET k == loss_count - args.loss_confirm IN
         /\ last_left' = last_left /\ last_right' = last_right
         /\ IF args.loss_timeout = 0 \/ k < args.loss_timeout
            THEN motor' = Drive(C8_Scaled(last_left), C8_Scaled(last_right))
            ELSE motor' = Zero]_vars

\* Witness: third coast tick (k = 2) of a loss, scale 3/4, the command is
\* still 3/4 of the last steering command and not zero
C8_Witness ==
    /\ lfPc = "top"
    /\ lfOut = "coast"
    /\ args.coast_scale = <<3, 4>>
    /\ loss_count - args.loss_confirm = 2
    /\ last_left # 0
    /\ motor = Drive(C8_Scaled(last_left), C8_Scaled(last_right))

\* C9: on every tick that computes a steering command the counter-rotating
\* pivot command is emitted iff |error| >= pivotErrThreshold; otherwise the
\* differential left/right formula is used.
C9_Pivot(e) ==
    LET pp == args.pivot_power * drive_sign IN
    IF e > 0 THEN Drive(clamp(pp, -2000, 2000), clamp(-pp, -2000, 2000))
             ELSE Drive(clamp(-pp, -2000, 2000), clamp(pp, -2000, 2000))
C9_Diff(e, p) ==
    Drive(IntClamp2((2 * Base(e) - Steer2(e, p)) * drive_sign),
          IntClamp2((2 * Base(e) + Steer2(e, p)) * drive_sign))
C9_PivotIffLargeError ==
    [][(lfPc = "sensed" /\ lfPc' = "top" /\ lfOut' \in {"pivot", "diff"}) =>
         IF Abs(err') * 5 >= args.pivot_err
         THEN lfOut' = "pivot" /\ motor' = C9_Pivot(err')
         ELSE lfOut' = "diff" /\ motor' = C9_Diff(err', last_err)]_vars

\* Witness: |error| exactly at the threshold (1.0) engages the pivot
C9_Witness ==
    /\ lfPc = "top"
    /\ lfOut = "pivot"
    /\ args.pivot_err = 10
    /\ Abs(err) = 2

\* C10: when pivot is engaged, left and right before drive-sign scaling are
\* equal in magnitude and opposite in sign: (-pivotPower, +pivotPower) for
\* error < 0, (+pivotPower, -pivotPower) for error > 0.
C10_PivotCounterRotates ==
    (lfPc = "top" /\ lfOut = "pivot") =>
        /\ l_cmd = -r_cmd
        /\ Abs(l_cmd) = args.pivot_power
        /\ err < 0 => (l_cmd = -args.pivot_power /\ r_cmd = args.pivot_power)
        /\ err > 0 => (l_cmd = args.pivot_power /\ r_cmd = -args.pivot_power)

\* Witness: pattern L=1, M=0, R=0 with threshold 0.6: error -1, pivot engaged
C10_Witness ==
    /\ lfPc = "top"
    /\ lfOut = "pivot"
    /\ L = 1 /\ M = 0 /\ R = 0
    /\ args.pivot_err = 6
    /\ err = -2
    /\ l_cmd = -args.pivot_power

\* A tick of the line follower that ran the steering branch (lines 134-168)
SteeringTick == lfPc = "sensed" /\ lfPc' = "top" /\ lfOut' \in {"pivot", "diff"}

\* C11 as stated: on any steering tick whose error is 0, base is base_straight
\* and steer is 0 whatever the previous error was; on any tick whose |error|
\* is 1, base is base_min.
C11_CenterZeroSteer ==
    [][SteeringTick =>
         /\ err' = 0 => (base' = args.base_straight /\ steer' = 0)
         /\ Abs(err') = 2 => base' = args.base_min]_vars

\* C11 amended: on a steering tick whose error is 0, base is base_straight
\* and steer is the derivative term alone, steer_sign * kd * (0 - last_err),
\* which is 0 when the previous error was 0 too; on a tick whose |error| is
\* 1, base is base_min.
C11_CenterBaseDerivSteer ==
    [][SteeringTick =>
         /\ err' = 0 =>
              /\ base' = args.base_straight
              /\ steer' = (IF args.invert_steer THEN 1 ELSE -1) * args.kd * last_err
              /\ last_err = 0 => steer' = 0
         /\ Abs(err') = 2 => base' = args.base_min]_vars

\* Witness: a tick with error 0 right after a tick with error 1/2 or more:
\* full base, non-zero steer
C11_Witness ==
    /\ lfPc = "top"
    /\ lfOut = "diff"
    /\ err = 0
    /\ base = args.base_straight
    /\ steer # 0

\* C13: when the centered pattern (0,1,0) is read on consecutive ticks, the
\* error is 0 on each of them and from the second one on the command is
\* (base_straight * drive_sign) on both sides.
C13_CenteredHoldsStraight ==
    [][(lfPc = "sensed" /\ lfPc' = "top" /\ L = 0 /\ M = 1 /\ R = 0) =>
         /\ err' = 0
         /\ prev_center =>
              LET p == args.base_straight * (IF args.invert_drive THEN -1 ELSE 1)
              IN  motor' = <<p, p, p, p>>]_vars

\* Witness: the second of two consecutive centered ticks is done, the
\* command is the straight one
C13_Witness ==
    /\ lfPc = "top"
    /\ prev_center
    /\ L = 0 /\ M = 1 /\ R = 0
    /\ lfOut = "diff"
    /\ motor = <<-420, -420, -420, -420>>

\* C14: a line-sensor read that fails is handled as an all-dark reading and
\* the loop goes on; a read failure never ends the loop.
C14_ReadFailureKeepsLooping ==
    lfExit = "read_error" => lfPc \in {"top", "sensed"}

\* The clearance of the side the pivot goes to, half centimetres
C12_Chosen ==
    IF PivotsLeft THEN Clearance(left_mid, up_ahead, down_ahead)
                  ELSE Clearance(right_mid, up_ahead, down_ahead)

\* 0.22 + 0.33 * (clamp(d, 10, 200) - 10) / 190 seconds in units of 1/380 ms
C12_Ramp(d2) ==
    LET c == IF d2 < 20 THEN 20 ELSE IF d2 > 400 THEN 400 ELSE d2
    IN  83600 + 330 * (c - 20)

C12_MinDur == nargs.pivot_min_dur * 380

C12_Formula ==
    /\ dur' = (IF C12_Ramp(C12_Chosen) > C12_MinDur THEN C12_Ramp(C12_Chosen)
                                                    ELSE C12_MinDur)
    /\ dur' >= C12_MinDur
    /\ \A x, y \in {0, 19, 20, 21, 160, 399, 400, 401, 2 * Far} :
         x <= y => pivot_time_from_dist(x) <= pivot_time_from_dist(y)

\* C12 as stated: the pivot lasts max(pivot_min_dur, 0.22 + 0.33 *
\* (clamp(d,10,200) - 10) / 190) seconds, d the clearance of the side pivoted
\* toward; it is at least pivot_min_dur, non-decreasing in d and equal to
\* pivot_min_dur at d = 10.
C12_DurationIsMinAtTen ==
    [][(navPc = "pivoting" /\ navPc' = "pivot_wait") =>
         /\ C12_Formula
         /\ C12_Chosen = 20 => dur' = C12_MinDur]_vars

\* C12 amended: same duration, at least pivot_min_dur and non-decreasing in
\* d; at d = 10 it is max(pivot_min_dur, 0.22), which is pivot_min_dur when
\* pivot_min_dur >= 0.22 s.
C12_DurationFormula ==
    [][(navPc = "pivoting" /\ navPc' = "pivot_wait") =>
         /\ C12_Formula
         /\ C12_Chosen <= 20 =>
              /\ dur' = (IF C12_MinDur >= 83600 THEN C12_MinDur ELSE 83600)
              /\ nargs.pivot_min_dur >= 220 => dur' = C12_MinDur]_vars

\* Witness: a pivot toward a side 10 cm clear with pivot_min_dur = 0.1 s
\* lasts 0.22 s
C12_Witness ==
    /\ navPc = "pivot_wait"
    /\ nargs.pivot_min_dur = 100
    /\ dur = 83600

\* C15: a pan, tilt or drivetrain command that raises during a navigator
\* tick does not end the loop.
C15_ActuatorFaultKeepsLooping ==
    navExit = "error" => navPc \notin {"finally_err", "failed"}

\* C16: a controller whose configuration cannot give a bounded command (a
\* power beyond the command range) never enters its loop and never issues a
\* non-zero drive command.
C16_BadConfigNeverStarts ==
    nargs.forward > CmdMax => (ticks = 0 /\ motor = Zero)

\* Commands and sensor reads in the log of a tick
C17_IsCommand(x) == x \in {"pan", "tilt", "drive"}
C17_IsRead(x) == x \in {"line", "range"}

\* C17 as stated: in every tick of either controller the sensor read of the
\* tick comes before any drivetrain or head command of the tick.
C17_SenseBeforeAct ==
    \A i \in 1..Len(tickLog) :
        C17_IsCommand(tickLog[i]) => \E j \in 1..(i - 1) : C17_IsRead(tickLog[j])

\* C17 amended: a line-follower tick reads the sensors, then issues its one
\* drivetrain command.  A navigator tick first commands pan, tilt and the
\* forward creep; the range sample follows, and every command of a recovery
\* comes after that sample.
C17_OrderOfTick ==
    /\ lfPc # "idle" => tickLog \in {<<>>, <<"line">>, <<"line", "drive">>}
    /\ navPc # "idle" =>
         \A i \in 1..Len(tickLog) :
             /\ i = 1 => tickLog[i] = "pan"
             /\ i = 2 => tickLog[i] = "tilt"
             /\ i = 3 => tickLog[i] = "drive"
             /\ i = 4 => tickLog[i] = "range"

\* Witness: a navigator tick that crept, sampled and then stopped for a
\* recovery
C17_Witness ==
    /\ navPc = "reversing"
    /\ tickLog = <<"pan", "tilt", "drive", "range", "drive">>

\* C18: in the terminal supervisor at most one controller process runs, so
\* at most one instance of each; a start spawns only after the other
\* controller and any instance of the same one are stopped.
C18_OneController ==
    /\ [](Cardinality(running) <= 1)
    /\ [][(tuiPc \in {"lf_spawn", "obs_spawn"} /\ tuiPc' = "getch") =>
            (running = {} /\ Cardinality(running') = 1)]_vars

\* Witness: the navigator was started while the line follower ran; only the
\* navigator is left
C18_Witness ==
    /\ tuiPc = "getch"
    /\ running = {<<"obs", 2>>}
    /\ procs = [k \in {"lf", "obs"} |-> IF k = "obs" THEN 2 ELSE 0]

\* C19: in the MQTT command listener the line follower and the navigator
\* never run at the same time.
C19_NeverBoth ==
    ~(\E p, q \in running : p[1] = "lf" /\ q[1] = "obs")

\* C20: every angle handed to the pan or tilt servo (sweep, peeks,
\* re-centering on exit) lies within the axis's [min, max].
C20_AnglesInRange ==
    navPc # "idle" =>
        /\ nargs.pan[1] <= pan_out /\ pan_out <= nargs.pan[2]
        /\ nargs.tilt[1] <= tilt_out /\ tilt_out <= nargs.tilt[2]

\* Witness: re-centering on exit to a tilt center above tilt_max: 95 is
\* asked, 90 is sent
C20_Witness ==
    /\ navPc = "done"
    /\ ticks > 0
    /\ tilt_deg = 95
    /\ tilt_out = 90

\* A whole tick of the line follower after the read: any of the branches
LfTick == lfPc = "sensed" /\ lfPc' = "top"

\* The reading of the tick is all dark and the streak reached loss_confirm
C21_Lost == L + M + R = 0 /\ loss_count >= args.loss_confirm

\* C21: the tick goes to loss handling (stop or coast) exactly when all three
\* sensors are dark and the dark streak is at least loss_confirm; a reading
\* with an active sensor resets the streak, the coasting flag and the coast
\* counter, a dark one extends the streak by one.
C21_LossExactlyWhenConfirmed ==
    [][/\ LfTick => (lfOut' \in {"stop", "coast", "timeout"} <=> C21_Lost)
       /\ (lfPc = "top" /\ lfPc' = "sensed") =>
             IF L' + M' + R' = 0
             THEN loss_count' = loss_count + 1
             ELSE loss_count' = 0 /\ coasting' = FALSE /\ coast_loops' = 0]_vars

\* Witness: a dark tick one short of loss_confirm = 2 was steered
C21_Witness ==
    /\ lfPc = "top"
    /\ args.loss_confirm = 2
    /\ L + M + R = 0
    /\ loss_count = 1
    /\ lfOut \in {"pivot", "diff"}

\* C22: with stop_on_loss every tick of a confirmed loss commands zero and
\* leaves the steering state alone; the first tick with an active sensor
\* steers again.
C22_StoppedWhileDark ==
    [][(LfTick /\ args.stop_on_loss) =>
         IF C21_Lost
         THEN /\ motor' = <<0, 0, 0, 0>>
              /\ UNCHANGED <<last_err, err, base, steer, last_left, last_right>>
         ELSE lfOut' \in {"pivot", "diff"}]_vars

\* Witness: the third consecutive stop tick of a loss that began while the
\* rover was driving
C22_Witness ==
    /\ lfPc = "top"
    /\ args.stop_on_loss
    /\ lfOut = "stop"
    /\ loss_count >= args.loss_confirm + 2
    /\ last_left # 0
    /\ motor = <<0, 0, 0, 0>>

\* C23: without stop_on_loss and with loss_timeout = T > 0, the first T
\* ticks of a confirmed loss command the scaled coast command and every later
\* one commands zero; with T = 0 every one coasts.  coast_loops numbers the
\* ticks of the confirmed loss.
C23_CoastThenTimeout ==
    /\ [](( lfPc = "top" /\ C21_Lost /\ ~args.stop_on_loss /\ args.loss_confirm >= 1)
             => coast_loops = loss_count - args.loss_confirm + 1)
    /\ [][(LfTick /\ C21_Lost /\ ~args.stop_on_loss) =>
            /\ coast_loops' = coast_loops + 1
            /\ IF args.loss_timeout > 0 /\ coast_loops' > args.loss_timeout
               THEN motor' = <<0, 0, 0, 0>>
               ELSE motor' = <<C8_Scaled(last_left), C8_Scaled(last_left),
                               C8_Scaled(last_right), C8_Scaled(last_right)>>]_vars

\* Witness: T = 2, the third tick of the confirmed loss has just commanded
\* zero after two coast ticks
C23_Witness ==
    /\ lfPc = "top"
    /\ args.loss_timeout = 2
    /\ coast_loops = 3
    /\ lfOut = "timeout"
    /\ last_left # 0
    /\ motor = <<0, 0, 0, 0>>

C24_Ambiguous(l, m, r) == <<l, m, r>> \in {<<1, 1, 1>>, <<1, 0, 1>>}

\* C24: with the ambiguity bias on, a tick reading (1,1,1) or (1,0,1) uses
\* last_err as its error and leaves last_err as it was; every other reading
\* with an active sensor computes the error from the reading.
C24_AmbiguousReusesLastErr ==
    [][(LfTick /\ L + M + R > 0) =>
         IF args.bias_ambig /\ C24_Ambiguous(L, M, R)
         THEN err' = last_err /\ last_err' = last_err
         ELSE err' * (L + M + R) = 2 * (R - L) /\ last_err' = err']_vars

\* Witness: (1,0,1) read while the last error was not 0: the error is kept
C24_Witness ==
    /\ lfPc = "top"
    /\ L = 1 /\ M = 0 /\ R = 1
    /\ err # 0
    /\ last_err = err

\* The tick has no fresh error: ambiguous pattern (bias on) or all dark
C25_NoFreshError ==
    \/ args.bias_ambig /\ C24_Ambiguous(L, M, R)
    \/ L + M + R = 0

\* C25 as stated: the PD step (derivative, steer, update of last_err) runs
\* only on ticks that computed a fresh error; not on an ambiguous or dark one.
C25_PdOnlyOnFreshError ==
    [][(LfTick /\ C25_NoFreshError) => lfOut' \notin {"pivot", "diff"}]_vars

\* C25 amended: the PD step runs on every tick that is not a confirmed-loss
\* tick.  On an ambiguous tick and on a dark tick short of loss_confirm it
\* runs with error = last_err: derivative 0, steer = steer_sign * kp *
\* last_err, last_err unchanged, and a command is issued.
C25_PdOnEveryUnlostTick ==
    [][LfTick =>
         /\ lfOut' \in {"pivot", "diff"} <=> ~C21_Lost
         /\ (C25_NoFreshError /\ ~C21_Lost) =>
              /\ err' = last_err
              /\ last_err' = last_err
              /\ steer' = (IF args.invert_steer THEN -1 ELSE 1) * args.kp * last_err
              /\ last_left' = motor'[1] /\ last_right' = motor'[3]]_vars

\* Witness: a dark tick short of loss_confirm steered on the last error
C25_Witness ==
    /\ lfPc = "top"
    /\ L + M + R = 0
    /\ loss_count < args.loss_confirm
    /\ lfOut = "diff"
    /\ err # 0
    /\ steer # 0

\* C26: on a tick with an active sensor and a non-ambiguous pattern the
\* error is (R - L) / (L + M + R); last_err only takes the values -1, -1/2,
\* 0, 1/2, 1 (here in halves).
C26_ErrorFormulaAndRange ==
    /\ [](last_err \in {-2, -1, 0, 1, 2})
    /\ [][(LfTick /\ L + M + R > 0 /\ ~C24_Ambiguous(L, M, R)) =>
            (err' * (L + M + R) = 2 * (R - L) /\ last_err' = err')]_vars

\* Witness: (1,1,0) gave the error -1/2
C26_Witness ==
    /\ lfPc = "top"
    /\ L = 1 /\ M = 1 /\ R = 0
    /\ err = -1
    /\ last_err = -1

\* C27: after every oscillator tick the pan position is in [pan min, pan
\* max], the tilt position in [tilt min, tilt max] and the direction is +1
\* or -1, whatever the center and the step.
C27_SweepStaysInRange ==
    [][/\ (navPc = "top" /\ navPc' = "panned") =>
             /\ nargs.pan[1] <= ps_pos' /\ ps_pos' <= nargs.pan[2]
             /\ ps_dir' \in {-1, 1}
       /\ (navPc = "panned" /\ navPc' = "swept") =>
             /\ nargs.tilt[1] <= to_pos' /\ to_pos' <= nargs.tilt[2]
             /\ to_dir' \in {-1, 1}]_vars

\* Witness: the first tilt tick from a center above tilt_max landed on
\* tilt_max, heading down
C27_Witness ==
    /\ navPc = "swept"
    /\ ticks = 1
    /\ nargs.tilt[3] > nargs.tilt[2]
    /\ to_pos = nargs.tilt[2]
    /\ to_dir = -1

\* One tick of a triangle wave from (pos, dir) to (pos2, dir2)
C28_Step(pos, dir, lo, hi, step, pos2, dir2) ==
    LET nxt == pos + dir * step IN
    IF nxt >= hi THEN pos2 = hi /\ dir2 = -1
    ELSE IF nxt <= lo THEN pos2 = lo /\ dir2 = 1
    ELSE pos2 = nxt /\ dir2 = dir

\* C28: each axis moves one step in its direction per tick, clamping to a
\* bound and reversing when the step would reach or pass it; ticking one axis
\* leaves the other alone; under continued ticking each axis is at its max
\* and at its min again and again.
C28_TriangleWave ==
    /\ [][/\ <<ps_pos, ps_dir>>' # <<ps_pos, ps_dir>> =>
                /\ C28_Step(ps_pos, ps_dir, nargs.pan[1], nargs.pan[2], nargs.pan[4],
                            ps_pos', ps_dir')
                /\ UNCHANGED <<to_pos, to_dir>>
          /\ <<to_pos, to_dir>>' # <<to_pos, to_dir>> =>
                /\ C28_Step(to_pos, to_dir, nargs.tilt[1], nargs.tilt[2], nargs.tilt[4],
                            to_pos', to_dir')
                /\ UNCHANGED <<ps_pos, ps_dir>>]_vars
    /\ []<>(ps_pos = nargs.pan[2]) /\ []<>(ps_pos = nargs.pan[1])
    /\ []<>(to_pos = nargs.tilt[2]) /\ []<>(to_pos = nargs.tilt[1])

\* Witness: pan clamped at its max and heading back while tilt sits at its
\* min heading up
C28_Witness ==
    /\ ps_pos = nargs.pan[2] /\ ps_dir = -1
    /\ to_pos = nargs.tilt[1] /\ to_dir = 1

\* C29: a tick starts a recovery iff it is a sampling tick (tick count
\* divisible by sample_every_ticks) and the average taken in it is at or
\* below the threshold; a non-sampling tick takes no sample and starts none.
C29_RecoveryIffLowSample ==
    [][/\ (navPc = "creep" /\ navPc' # "finally") =>
             IF ticks % nargs.sample_every_ticks = 0
             THEN navPc' = "stopping" <=> last_ahead' <= 2 * nargs.obs_th
             ELSE navPc' # "stopping" /\ last_ahead' = last_ahead
       /\ (navPc # "stopping" /\ navPc' = "stopping") => navPc = "creep"]_vars

\* Witness: a non-sampling tick ended without a recovery although the last
\* published distance is below the threshold
C29_Witness ==
    /\ navPc = "sleep"
    /\ nargs.sample_every_ticks = 2
    /\ ticks = 3
    /\ last_ahead < 2 * nargs.obs_th

C30_Valid == {i \in 1..Len(us_reads) : us_reads[i] > 0 /\ us_reads[i] <= 400}

\* C30: the averaged sample is the mean of exactly the valid reads (those in
\* (0, 400] cm) and the sentinel 9999 when none is valid; one valid and one
\* invalid read give the valid read.  last_ahead is in half centimetres.
C30_MeanOfValidReads ==
    (navPc \in {"stopping", "sleep"} /\ us_reads # <<>>) =>
        /\ C30_Valid = {} => last_ahead = 2 * 9999
        /\ C30_Valid = {1, 2} => last_ahead = us_reads[1] + us_reads[2]
        /\ \A i \in {1, 2} : C30_Valid = {i} => last_ahead = 2 * us_reads[i]

\* Witness: 80 cm and a timeout average to 80 cm
C30_Witness ==
    /\ navPc = "sleep"
    /\ us_reads = <<80, NoEcho>>
    /\ last_ahead = 160

\* C31 as stated: the four probes are aimed at pan +25 / pan -25 from the
\* current pan at the current tilt and at tilt +15 / tilt -15 from the current
\* tilt at the current pan (each within the servo's range).
C31_ProbesAroundScan ==
    navPc = "peek_read" =>
        CASE probe = 1 -> /\ pan_out = clamp(ps_pos + 25, nargs.pan[1], nargs.pan[2])
                          /\ tilt_out = to_pos
          [] probe = 2 -> /\ pan_out = clamp(ps_pos - 25, nargs.pan[1], nargs.pan[2])
                          /\ tilt_out = to_pos
          [] probe = 3 -> /\ pan_out = ps_pos
                          /\ tilt_out = clamp(to_pos + 15, nargs.tilt[1], nargs.tilt[2])
          [] probe = 4 -> /\ pan_out = ps_pos
                          /\ tilt_out = clamp(to_pos - 15, nargs.tilt[1], nargs.tilt[2])

\* C31 amended: the four probes are aimed at fixed offsets from the
\* configured center angles, wherever the sweep is: pan center +25 and -25
\* at tilt center, tilt center +15 and -15 at pan center, each angle clamped
\* to its servo's range.
C31_ProbesAroundCenter ==
    navPc = "peek_read" =>
        /\ probe \in 1..4
        /\ pan_out = clamp(nargs.pan[3] + (CASE probe = 1 -> 25 [] probe = 2 -> -25
                                            [] OTHER -> 0),
                           nargs.pan[1], nargs.pan[2])
        /\ tilt_out = clamp(nargs.tilt[3] + (CASE probe = 3 -> 15 [] probe = 4 -> -15
                                              [] OTHER -> 0),
                            nargs.tilt[1], nargs.tilt[2])

\* Witness: the sweep is at pan_max and the first probe looks at center + 25
C31_Witness ==
    /\ navPc = "peek_read"
    /\ probe = 1
    /\ ps_pos = nargs.pan[2]
    /\ pan_out = nargs.pan[3] + 25
    /\ pan_out # ps_pos

\* C32: a probe leaves position and direction of both oscillators alone and
\* returns the head to the sweep position it had before; no step of the
\* recovery advances an oscillator.
C32_ProbeRestoresScan ==
    /\ [](navPc \in {"peek_move", "pivoting"} => pan_out = ps_pos /\ tilt_out = to_pos)
    /\ [][navPc \notin {"top", "panned"} =>
             UNCHANGED <<ps_pos, ps_dir, to_pos, to_dir>>]_vars

\* Witness: the fourth probe looked at pan center and the head is back at a
\* sweep position away from it
C32_Witness ==
    /\ navPc = "pivoting"
    /\ ps_pos # nargs.pan[3]
    /\ pan_out = ps_pos /\ tilt_out = to_pos
    /\ to_pos # clamp(nargs.tilt[3] - 15, nargs.tilt[1], nargs.tilt[2])

C33_Max3(a, b, c) ==
    IF a >= b /\ a >= c THEN a ELSE IF b >= c THEN b ELSE c

\* C33: leftClearance is max(left, up, down) when the left reading is below
\* the threshold and the left reading otherwise; likewise rightClearance; a
\* clearance is never below its horizontal reading.
C33_ClearanceRescue ==
    /\ [](navPc = "pivot_wait" => clear[1] >= left_mid /\ clear[2] >= right_mid)
    /\ [][(navPc = "pivoting" /\ navPc' = "pivot_wait") =>
             /\ clear'[1] = IF left_mid < 2 * nargs.obs_th
                            THEN C33_Max3(left_mid, up_ahead, down_ahead) ELSE left_mid
             /\ clear'[2] = IF right_mid < 2 * nargs.obs_th
                            THEN C33_Max3(right_mid, up_ahead, down_ahead)
                            ELSE right_mid]_vars

\* Witness: a left reading of 10 cm rescued by a vertical reading of 80 cm,
\* next to a right reading at the threshold that is not rescued
C33_Witness ==
    /\ navPc = "pivot_wait"
    /\ left_mid = 20 /\ clear[1] = 160
    /\ right_mid = 2 * nargs.obs_th /\ clear[2] = right_mid

C34_Pw == nargs.turn * (IF nargs.invert_turn THEN -1 ELSE 1)
C34_Left == <<-C34_Pw, -C34_Pw, C34_Pw, C34_Pw>>
C34_Right == <<C34_Pw, C34_Pw, -C34_Pw, -C34_Pw>>

\* C34: a recovery pivots exactly once, to the left iff leftClearance >
\* rightClearance and to the right otherwise, ties included.
C34_PivotSide ==
    /\ [](LET n == Cardinality({i \in DOMAIN recLog :
                                    recLog[i] \in {C34_Left, C34_Right}})
          IN  /\ n <= 1
              /\ (navPc \in {"pivot_wait", "rolling", "roll_wait"}
                    \/ (navPc = "sleep" /\ recLog # <<>>)) => n = 1
              /\ navPc \in {"stopping", "reversing", "reverse_wait", "peek_move",
                             "peek_read", "pivoting"} => n = 0)
    /\ [][(navPc = "pivoting" /\ navPc' = "pivot_wait") =>
             motor' = IF clear'[1] > clear'[2] THEN C34_Left ELSE C34_Right]_vars

\* Witness: both sides read 10 cm, both are rescued by the same 80 cm above,
\* and the pivot goes right
C34_Witness ==
    /\ navPc = "pivot_wait"
    /\ left_mid = 20 /\ right_mid = 20
    /\ clear = <<160, 160>>
    /\ motor = PivotRightCmd

\* C35: a recovery that started and is not cancelled (no interrupt) runs
\* through all its stages, ends with the drivetrain at zero and hands back to
\* scanning, and the loop goes on to the next tick.
C35_RecoveryCompletes ==
    [][/\ (Stage # "Scanning" /\ Stage' = "Scanning" /\ navPc' # "finally") =>
             /\ navPc' = "sleep"
             /\ Len(recLog') = 7
             /\ motor' = <<0, 0, 0, 0>>
       /\ (navPc = "sleep" /\ navPc' # "finally") => navPc' = "top"]_vars

C36_LossOut == {"stop", "coast", "timeout"}

\* C36: a tick of a confirmed loss (stop, coast or timed-out coast) leaves
\* last_err, last_left and last_right alone; so all coast ticks of one loss
\* emit the same command, scaled from the last command before the loss, and
\* the first steering tick afterwards differentiates against the pre-loss
\* error.
C36_LossKeepsMemory ==
    [][LfTick =>
         /\ lfOut' \in C36_LossOut => UNCHANGED <<last_err, last_left, last_right>>
         /\ (lfOut \in {"pivot", "diff"} /\ lfOut' = "coast") =>
               motor' = <<C8_Scaled(motor[1]), C8_Scaled(motor[1]),
                          C8_Scaled(motor[3]), C8_Scaled(motor[3])>>
         /\ (lfOut = "coast" /\ lfOut' = "coast") => motor' = motor
         /\ (lfOut \in C36_LossOut /\ lfOut' \in {"pivot", "diff"}) =>
               /\ last_err = err
               /\ steer' = (IF args.invert_steer THEN -1 ELSE 1)
                              * (args.kp * err' + args.kd * (err' - err))]_vars

\* Witness: second coast tick of a loss that began at error +1 or -1; the
\* memory still holds the pre-loss error and command, the emitted command is
\* that command scaled once
C36_Witness ==
    /\ lfPc = "top"
    /\ lfOut = "coast"
    /\ coast_loops = 2
    /\ Abs(last_err) = 2
    /\ last_left # 0 /\ last_right # 0
    /\ args.coast_scale = <<3, 2>>
    /\ motor = <<C8_Scaled(last_left), C8_Scaled(last_left),
                 C8_Scaled(last_right), C8_Scaled(last_right)>>
    /\ motor[1] # last_left

\* C37: an all-dark tick with the streak still below loss_confirm emits the
\* command of last_err with zero derivative (the pivot when |last_err| >=
\* pivot_err, else the differential with steer = steer_sign * kp * last_err),
\* stores it as the last command and leaves last_err alone.
C37_DarkTickSteersOnLastErr ==
    [][(LfTick /\ L + M + R = 0 /\ loss_count < args.loss_confirm) =>
         /\ last_err' = last_err
         /\ motor' = IF Abs(last_err) * 5 >= args.pivot_err
                      THEN C9_Pivot(last_err)
                      ELSE C9_Diff(last_err, last_err)
         /\ lfOut' = IF Abs(last_err) * 5 >= args.pivot_err THEN "pivot" ELSE "diff"
         /\ lfOut' = "diff" =>
               steer' = (IF args.invert_steer THEN -1 ELSE 1) * args.kp * last_err
         /\ <<last_left', last_left', last_right', last_right'>> = motor']_vars

\* Witness: a dark tick short of loss_confirm that pivoted on the error kept
\* from before
C37_Witness ==
    /\ lfPc = "top"
    /\ L + M + R = 0
    /\ loss_count = 1 /\ args.loss_confirm = 2
    /\ lfOut = "pivot"
    /\ Abs(last_err) = 2
    /\ <<last_left, last_left, last_right, last_right>> = motor

C38_Sign == IF args.invert_drive THEN -1 ELSE 1

\* left, right of a steering tick with the drive inversion off
C38_SteerOff(e, p) ==
    IF Abs(e) * 5 >= args.pivot_err
    THEN IF e > 0 THEN <<clamp(args.pivot_power, -2000, 2000),
                         clamp(-args.pivot_power, -2000, 2000)>>
                  ELSE <<clamp(-args.pivot_power, -2000, 2000),
                         clamp(args.pivot_power, -2000, 2000)>>
    ELSE <<IntClamp2(2 * Base(e) - Steer2(e, p)), IntClamp2(2 * Base(e) + Steer2(e, p))>>

\* C38: with the rest of the configuration and the readings the same, the
\* commands with the drive inversion on are the negation, wheel by wheel and
\* tick by tick, of those with it off.  Stated on one run: every command and
\* every stored last command is the drive sign times the command of the
\* inversion-off run, which is computed here without the drive sign (steering
\* and pivot from the errors, coast from the inversion-off last command,
\* which is the drive sign times the stored one).
C38_InversionNegates ==
    [][LfTick =>
         CASE lfOut' \in {"pivot", "diff"} ->
                LET off == C38_SteerOff(err', last_err) IN
                /\ motor' = <<C38_Sign * off[1], C38_Sign * off[1],
                              C38_Sign * off[2], C38_Sign * off[2]>>
                /\ last_left' = C38_Sign * off[1]
                /\ last_right' = C38_Sign * off[2]
           [] lfOut' = "coast" ->
                LET offL == C8_Scaled(C38_Sign * last_left)
                    offR == C8_Scaled(C38_Sign * last_right) IN
                /\ motor' = <<C38_Sign * offL, C38_Sign * offL,
                              C38_Sign * offR, C38_Sign * offR>>
                /\ UNCHANGED <<last_left, last_right>>
           [] OTHER ->
                /\ motor' = <<0, 0, 0, 0>>
                /\ UNCHANGED <<last_left, last_right>>]_vars

\* Witness: a coast tick with the inversion off emitted a forward command on
\* one side after a pivot
C38_Witness ==
    /\ lfPc = "top"
    /\ ~args.invert_drive
    /\ lfOut = "coast"
    /\ motor[1] * motor[3] < 0
    /\ Abs(last_left) = args.pivot_power

C39_Sgn(x) == IF x > 0 THEN 1 ELSE IF x < 0 THEN -1 ELSE 0

====
